---------------------------- MODULE Spec2Model ----------------------------
(***************************************************************************)
(* A model of expyrun's configuration engine (src/expyrun/config.py):      *)
(* config_flatten / config_unflatten and the reference resolver (Parser).  *)
(*                                                                         *)
(* Python strings are sequences of one-character strings, so that the      *)
(* regular expressions, the `!P` marker, str() and int()/float() act on    *)
(* characters.  A configuration value is a record [t |-> variant, v |-> _] *)
(* with t in "bool", "int", "float", "str", "list", "map":                 *)
(*   bool   v is a BOOLEAN                                                 *)
(*   int    v is an integer                                                *)
(*   float  v is the text of Python's repr of the float                    *)
(*   str    v is the sequence of characters                                *)
(*   list   v is the sequence of values                                    *)
(*   map    v is a function from keys (strings) to values                  *)
(***************************************************************************)
EXTENDS Integers, Sequences, FiniteSets, TLC

VARIABLES
    env,              \* os.environ: a function from the set names to their text
    config,           \* Parser.config: the flattened snapshot, key -> value
    parsing,          \* Parser.parsing (in_progress)
    parsed,           \* Parser.parsed (done)
    stack,            \* the nested parse_key calls, innermost last
    visited,          \* keys the loop of Parser.parse has already passed
    status,           \* "running", "done" or the exception that ended parse()
    result,           \* what Parser.parse() returned
    warns,            \* number of warnings.warn calls made by the Parser
    source,           \* the Config handed to Parser(...) or to config_flatten
    pass,             \* how many times the configuration has been resolved
    cfg,              \* config_flatten / config_unflatten: the argument
    todo,             \* config_unflatten: keys of cfg not yet iterated
    unflattened_cfg,  \* config_unflatten: the tree built so far
    outcome,          \* config_flatten / config_unflatten: how the call stands
    heap,             \* the dicts and lists in memory: address -> object
    cfg_1,            \* merge: the first argument (a reference into heap)
    cfg_2,            \* merge: the second argument (a reference into heap)
    new_key_policy,   \* merge: the third argument
    items_order,      \* the order in which the items of a dict are iterated
    merged,           \* merge: what the call returned or raised, its warnings
    files,            \* the yaml files on disk: path -> content
    config_file,      \* load_config / build_config: the path argument
    args,             \* build_config: the extra arguments
    loaded,           \* load_config: what the call returned or raised
    built,            \* build_config: what the call returned or raised
    debug,            \* main: the debug argument
    effects           \* main: what it did after the resolve, in order

vars == <<env, config, parsing, parsed, stack, visited, status, result, warns,
          source, pass, cfg, todo, unflattened_cfg, outcome,
          heap, cfg_1, cfg_2, new_key_policy, items_order, merged,
          files, config_file, args, loaded, built, debug, effects>>

mergeVars == <<heap, cfg_1, cfg_2, new_key_policy, items_order, merged>>

loadVars == <<files, config_file, args, loaded, built>>

mainVars == <<debug, effects>>

parserVars == <<env, config, parsing, parsed, stack, visited, status, result,
                warns, source, pass>>

flatVars == <<cfg, todo, unflattened_cfg, outcome>>

(***************************************************************************)
(* Characters and strings                                                  *)
(***************************************************************************)
LowerCase == <<"a","b","c","d","e","f","g","h","i","j","k","l","m",
               "n","o","p","q","r","s","t","u","v","w","x","y","z">>

UpperCase == <<"A","B","C","D","E","F","G","H","I","J","K","L","M",
               "N","O","P","Q","R","S","T","U","V","W","X","Y","Z">>

DigitChars == <<"0","1","2","3","4","5","6","7","8","9">>

Range(s) == {s[i] : i \in DOMAIN s}

Letters == Range(LowerCase) \cup Range(UpperCase)

Digits == Range(DigitChars)

Whitespace == {" ", "\t", "\n", "\r"}

\* [a-zA-Z] : first character of an environment variable name
ENV_VAR_HEAD == Letters

\* [a-zA-Z1-9_] : the following characters of an environment variable name
ENV_VAR_TAIL == Letters \cup (Digits \ {"0"}) \cup {"_"}

\* [a-zA-Z1-9_.] : the characters of a self reference
SELF_REF_CLASS == Letters \cup (Digits \ {"0"}) \cup {"_", "."}

NO_PARSE_STRING == <<"!", "P">>

\* s[i:] of Python, with i counted from 1
From(s, i) == SubSeq(s, i, Len(s))

\* str.lower() of one character
LowerChar(c) ==
    IF c \in Range(UpperCase)
    THEN LowerCase[CHOOSE i \in DOMAIN UpperCase : UpperCase[i] = c]
    ELSE c

Lower(s) == [i \in DOMAIN s |-> LowerChar(s[i])]

RECURSIVE LStrip(_)
LStrip(s) == IF s # <<>> /\ Head(s) \in Whitespace THEN LStrip(Tail(s)) ELSE s

RECURSIVE RStrip(_)
RStrip(s) ==
    IF s # <<>> /\ s[Len(s)] \in Whitespace
    THEN RStrip(SubSeq(s, 1, Len(s) - 1))
    ELSE s

Strip(s) == RStrip(LStrip(s))

\* the first index j >= i with s[j] not in class (Len(s) + 1 if there is none)
RECURSIVE RunEnd(_, _, _)
RunEnd(s, i, class) ==
    IF i <= Len(s) /\ s[i] \in class THEN RunEnd(s, i + 1, class) ELSE i

\* the first index of c in s, 0 if c does not occur
IndexOf(s, c) ==
    IF c \in Range(s) THEN CHOOSE i \in DOMAIN s : s[i] = c /\ \A j \in 1..(i - 1) : s[j] # c
    ELSE 0

(***************************************************************************)
(* int(), float(), str() and repr() of Python, on the characters           *)
(***************************************************************************)
DigitValue(c) == (CHOOSE i \in DOMAIN DigitChars : DigitChars[i] = c) - 1

\* digits, with single underscores allowed between them (PEP 515)
IsDigitRun(s) ==
    /\ s # <<>>
    /\ s[1] \in Digits
    /\ s[Len(s)] \in Digits
    /\ \A i \in DOMAIN s : s[i] \in Digits \cup {"_"}
    /\ \A i \in 1..(Len(s) - 1) : ~(s[i] = "_" /\ s[i + 1] = "_")

RECURSIVE NatOf(_)
NatOf(s) ==
    IF s = <<>> THEN 0
    ELSE LET init == SubSeq(s, 1, Len(s) - 1)
             last == s[Len(s)]
         IN  IF last = "_" THEN NatOf(init) ELSE 10 * NatOf(init) + DigitValue(last)

Unsigned(s) == IF s # <<>> /\ Head(s) \in {"+", "-"} THEN Tail(s) ELSE s

IsNegative(s) == s # <<>> /\ Head(s) = "-"

\* int(value) does not raise ValueError
IsIntText(s) == IsDigitRun(Unsigned(Strip(s)))

\* int(value)
IntOf(s) ==
    LET b == Strip(s)
    IN  IF IsNegative(b) THEN 0 - NatOf(Unsigned(b)) ELSE NatOf(Unsigned(b))

RECURSIVE NatText(_)
NatText(n) ==
    IF n < 10 THEN <<DigitChars[n + 1]>>
    ELSE NatText(n \div 10) \o <<DigitChars[(n % 10) + 1]>>

\* str(n) of an integer
IntText(n) == IF n < 0 THEN <<"-">> \o NatText(0 - n) ELSE NatText(n)

OnlyDigits(s) == SelectSeq(s, LAMBDA c : c \in Digits)

RECURSIVE DropLeadingZeros(_)
DropLeadingZeros(s) ==
    IF Len(s) > 1 /\ Head(s) = "0" THEN DropLeadingZeros(Tail(s)) ELSE s

RECURSIVE DropTrailingZeros(_)
DropTrailingZeros(s) ==
    IF Len(s) > 1 /\ s[Len(s)] = "0"
    THEN DropTrailingZeros(SubSeq(s, 1, Len(s) - 1))
    ELSE s

OrZero(s) == IF s = <<>> THEN <<"0">> ELSE s

FloatNames == {<<"i","n","f">>, <<"i","n","f","i","n","i","t","y">>, <<"n","a","n">>}

\* float(value) does not raise ValueError (decimal texts without exponent,
\* and the names inf, infinity, nan)
IsFloatText(s) ==
    LET b   == Unsigned(Strip(s))
        dot == IndexOf(b, ".")
        ip  == SubSeq(b, 1, dot - 1)
        fp  == From(b, dot + 1)
    IN  \/ Lower(b) \in FloatNames
        \/ IsDigitRun(b)
        \/ /\ dot > 0
           /\ ip = <<>> \/ IsDigitRun(ip)
           /\ fp = <<>> \/ IsDigitRun(fp)
           /\ ip # <<>> \/ fp # <<>>

\* repr(float(value)): values of magnitude in [1e-4, 1e16), 0, inf and nan
FloatOf(s) ==
    LET b    == Unsigned(Strip(s))
        sign == IF IsNegative(Strip(s)) THEN <<"-">> ELSE <<>>
        dot  == IndexOf(b, ".")
        ip   == IF dot = 0 THEN b ELSE SubSeq(b, 1, dot - 1)
        fp   == IF dot = 0 THEN <<>> ELSE From(b, dot + 1)
    IN  IF Lower(b) = <<"n","a","n">> THEN <<"n","a","n">>
        ELSE IF Lower(b) \in FloatNames THEN sign \o <<"i","n","f">>
        ELSE sign \o DropLeadingZeros(OrZero(OnlyDigits(ip))) \o <<".">>
                  \o DropTrailingZeros(OrZero(OnlyDigits(fp)))

VBool(b)  == [t |-> "bool", v |-> b]
VInt(n)   == [t |-> "int", v |-> n]
VFloat(s) == [t |-> "float", v |-> s]
VStr(s)   == [t |-> "str", v |-> s]
VList(s)  == [t |-> "list", v |-> s]
VMap(f)   == [t |-> "map", v |-> f]

True  == <<"T","r","u","e">>
False == <<"F","a","l","s","e">>

\* the escapes repr() writes in a quoted string
EscapeChar(c, quote) ==
    IF c = "\\" THEN <<"\\", "\\">>
    ELSE IF c = quote THEN <<"\\", c>>
    ELSE IF c = "\n" THEN <<"\\", "n">>
    ELSE IF c = "\t" THEN <<"\\", "t">>
    ELSE IF c = "\r" THEN <<"\\", "r">>
    ELSE <<c>>

RECURSIVE Escape(_, _)
Escape(s, quote) ==
    IF s = <<>> THEN <<>> ELSE EscapeChar(Head(s), quote) \o Escape(Tail(s), quote)

\* repr(s) of a string: double quotes only when s holds ' and no "
StrRepr(s) ==
    LET quote == IF "'" \in Range(s) /\ ~("\"" \in Range(s)) THEN "\"" ELSE "'"
    IN  <<quote>> \o Escape(s, quote) \o <<quote>>

RECURSIVE PyRepr(_)
RECURSIVE JoinRepr(_)
JoinRepr(vs) ==
    IF vs = <<>> THEN <<>>
    ELSE IF Len(vs) = 1 THEN PyRepr(vs[1])
    ELSE PyRepr(vs[1]) \o <<",", " ">> \o JoinRepr(Tail(vs))

\* repr(value)
PyRepr(x) ==
    IF x.t = "bool" THEN (IF x.v THEN True ELSE False)
    ELSE IF x.t = "int" THEN IntText(x.v)
    ELSE IF x.t = "float" THEN x.v
    ELSE IF x.t = "str" THEN StrRepr(x.v)
    ELSE <<"[">> \o JoinRepr(x.v) \o <<"]">>

\* str(value)
PyStr(x) == IF x.t = "str" THEN x.v ELSE PyRepr(x)

(***************************************************************************)
(* convert_if_possible                                                     *)
(***************************************************************************)
convert_if_possible(value) ==
    IF IsIntText(value) THEN VInt(IntOf(value))
    ELSE IF IsFloatText(value) THEN VFloat(FloatOf(value))
    ELSE IF Lower(value) = Lower(False) THEN VBool(FALSE)
    ELSE IF Lower(value) = Lower(True) THEN VBool(TRUE)
    ELSE VStr(value)

(***************************************************************************)
(* config_flatten, _flatten, config_unflatten                              *)
(* A Config (dict) is a function from keys to values; a nested dict is the *)
(* value VMap(function).  A call that raises yields ok = FALSE.            *)
(***************************************************************************)
EmptyDict == <<>>

Dot == <<".">>

\* key.split(".")
RECURSIVE Split(_)
Split(key) ==
    LET i == IndexOf(key, ".")
    IN  IF i = 0 THEN <<key>>
        ELSE <<SubSeq(key, 1, i - 1)>> \o Split(From(key, i + 1))

\* _flatten without the prefix: every leaf is registered under its own key
RECURSIVE _flatten_no_prefix(_, _, _, _)
_flatten_no_prefix(cfg_, keys, flattened, prefix) ==
    IF keys = {} \/ ~flattened.ok THEN flattened
    ELSE LET key   == CHOOSE k \in keys : TRUE
             value == cfg_[key]
             after == IF value.t = "map"
                      THEN _flatten_no_prefix(value.v, DOMAIN value.v, flattened, key)
                      ELSE IF key \in DOMAIN flattened.d
                      THEN [ok |-> FALSE, d |-> flattened.d]
                      ELSE [ok |-> TRUE, d |-> flattened.d @@ (key :> value)]
         IN  _flatten_no_prefix(cfg_, keys \ {key}, after, prefix)

\* the loop of _flatten over the items `keys` of cfg_, filling `flattened`
RECURSIVE _flatten(_, _, _, _)
_flatten(cfg_, keys, flattened, prefix) ==
    IF keys = {} \/ ~flattened.ok THEN flattened
    ELSE LET key      == CHOOSE k \in keys : TRUE
             true_key == IF prefix = <<>> THEN key ELSE prefix \o Dot \o key
             value    == cfg_[key]
             after    == IF value.t = "map"
                         THEN _flatten(value.v, DOMAIN value.v, flattened, true_key)
                         ELSE IF true_key \in DOMAIN flattened.d
                         THEN [ok |-> FALSE, d |-> flattened.d]
                         ELSE [ok |-> TRUE, d |-> flattened.d @@ (true_key :> value)]
         IN  _flatten(cfg_, keys \ {key}, after, prefix)

config_flatten(cfg_) ==
    _flatten(cfg_, DOMAIN cfg_, [ok |-> TRUE, d |-> EmptyDict], <<>>)

\* an iteration of config_unflatten that sets keys[-1] without looking
\* whether it is already there
RECURSIVE UnflattenKey_overwrite(_, _, _)
UnflattenKey_overwrite(current_cfg, keys, value) ==
    LET k == Head(keys)
    IN  IF Len(keys) = 1
        THEN [ok |-> TRUE, d |-> (k :> value) @@ current_cfg]
        ELSE LET next_cfg == IF k \in DOMAIN current_cfg
                             THEN current_cfg[k] ELSE VMap(EmptyDict)
             IN  IF next_cfg.t # "map"
                 THEN [ok |-> FALSE, d |-> current_cfg]
                 ELSE LET below == UnflattenKey_overwrite(next_cfg.v, Tail(keys), value)
                      IN  [ok |-> below.ok,
                           d  |-> (k :> VMap(below.d)) @@ current_cfg]

\* one iteration of the loop of config_unflatten, below current_cfg:
\* walk keys[:-1], creating the missing dicts, then set keys[-1]
RECURSIVE UnflattenKey(_, _, _)
UnflattenKey(current_cfg, keys, value) ==
    LET k == Head(keys)
    IN  IF Len(keys) = 1
        THEN IF k \in DOMAIN current_cfg
             THEN [ok |-> FALSE, d |-> current_cfg]
             ELSE [ok |-> TRUE, d |-> current_cfg @@ (k :> value)]
        ELSE LET next_cfg == IF k \in DOMAIN current_cfg
                             THEN current_cfg[k] ELSE VMap(EmptyDict)
             IN  IF next_cfg.t # "map"
                 THEN [ok |-> FALSE, d |-> current_cfg]
                 ELSE LET below == UnflattenKey(next_cfg.v, Tail(keys), value)
                      IN  [ok |-> below.ok,
                           d  |-> (k :> VMap(below.d)) @@ current_cfg]

\* config_unflatten, iterating the items of cfg_ in some order
RECURSIVE UnflattenAll(_, _, _)
UnflattenAll(cfg_, keys, acc) ==
    IF keys = {} \/ ~acc.ok THEN acc
    ELSE LET key == CHOOSE k \in keys : TRUE
         IN  UnflattenAll(cfg_, keys \ {key},
                          UnflattenKey(acc.d, Split(key), cfg_[key]))

config_unflatten(cfg_) ==
    UnflattenAll(cfg_, DOMAIN cfg_, [ok |-> TRUE, d |-> EmptyDict])

(***************************************************************************)
(* Parser: the regular expressions and the two substitutions               *)
(* A formatting result is [r |-> "val", x |-> value, w |-> warnings] or,   *)
(* when it has to call parse_key on a key that is not parsed yet,          *)
(* [r |-> "call", key |-> key, w |-> warnings emitted before the call].    *)
(***************************************************************************)
\* re.match of ENV_VAR_REGEXP at s[i]: the index after the match, 0 if none
EnvVarMatch(s, i) ==
    IF s[i] = "$" /\ i + 1 <= Len(s) /\ s[i + 1] \in ENV_VAR_HEAD
    THEN RunEnd(s, i + 2, ENV_VAR_TAIL)
    ELSE 0

\* re.match of ENV_VAR_REGEXP_BRACKET at s[i]
EnvVarBracketMatch(s, i) ==
    IF s[i] = "$" /\ i + 2 <= Len(s) /\ s[i + 1] = "{" /\ s[i + 2] \in ENV_VAR_HEAD
    THEN LET j == RunEnd(s, i + 3, ENV_VAR_TAIL)
         IN  IF j <= Len(s) /\ s[j] = "}" THEN j + 1 ELSE 0
    ELSE 0

\* re.match of SELF_REF_REGEXP at s[i]
SelfRefMatch(s, i) ==
    IF s[i] = "{"
    THEN LET j == RunEnd(s, i + 1, SELF_REF_CLASS)
         IN  IF j > i + 1 /\ j <= Len(s) /\ s[j] = "}" THEN j + 1 ELSE 0
    ELSE 0

\* env_replace that does not warn about a variable that is not set
\* (sensitivity variant of env_replace)
env_replace_silent(env_key, environ) ==
    IF env_key \in DOMAIN environ
    THEN [s |-> environ[env_key], w |-> 0]
    ELSE [s |-> <<>>, w |-> 0]

\* env_replace(match): the replacement text and the warning it emits
env_replace(env_key, environ) ==
    IF env_key \in DOMAIN environ
    THEN [s |-> environ[env_key], w |-> 0]
    ELSE [s |-> <<>>, w |-> 1]

\* re.sub(ENV_VAR_REGEXP, env_replace, value), from index i on
RECURSIVE SubEnvVar(_, _, _)
SubEnvVar(s, i, environ) ==
    IF i > Len(s) THEN [s |-> <<>>, w |-> 0]
    ELSE LET j == EnvVarMatch(s, i)
         IN  IF j = 0
             THEN LET more == SubEnvVar(s, i + 1, environ)
                  IN  [s |-> <<s[i]>> \o more.s, w |-> more.w]
             ELSE LET rep  == env_replace(SubSeq(s, i + 1, j - 1), environ)
                      more == SubEnvVar(s, j, environ)
                  IN  [s |-> rep.s \o more.s, w |-> rep.w + more.w]

\* re.sub(ENV_VAR_REGEXP_BRACKET, env_replace, value), from index i on
RECURSIVE SubEnvVarBracket(_, _, _)
SubEnvVarBracket(s, i, environ) ==
    IF i > Len(s) THEN [s |-> <<>>, w |-> 0]
    ELSE LET j == EnvVarBracketMatch(s, i)
         IN  IF j = 0
             THEN LET more == SubEnvVarBracket(s, i + 1, environ)
                  IN  [s |-> <<s[i]>> \o more.s, w |-> more.w]
             ELSE LET rep  == env_replace(SubSeq(s, i + 2, j - 2), environ)
                      more == SubEnvVarBracket(s, j, environ)
                  IN  [s |-> rep.s \o more.s, w |-> rep.w + more.w]

\* the whole of value is one match of ENV_VAR_REGEXP or of
\* ENV_VAR_REGEXP_BRACKET
IsWholeEnvReference(value) ==
    /\ value # <<>>
    /\ \/ EnvVarMatch(value, 1) = Len(value) + 1
       \/ EnvVarBracketMatch(value, 1) = Len(value) + 1

\* replace_env_reference that converts only a value that is exactly one
\* reference (sensitivity variant of replace_env_reference)
replace_env_reference_whole_only(value, environ) ==
    LET bare    == SubEnvVar(value, 1, environ)
        bracket == SubEnvVarBracket(bare.s, 1, environ)
    IN  [r |-> "val",
         x |-> IF IsWholeEnvReference(value)
               THEN convert_if_possible(bracket.s) ELSE VStr(bracket.s),
         w |-> bare.w + bracket.w]

replace_env_reference(value, environ) ==
    LET bare    == SubEnvVar(value, 1, environ)
        bracket == SubEnvVarBracket(bare.s, 1, environ)
    IN  [r |-> "val", x |-> convert_if_possible(bracket.s), w |-> bare.w + bracket.w]

\* self_replace(match) for a key of the snapshot that is parsed
self_replace(key, snapshot) == PyStr(snapshot[key])

\* re.sub(SELF_REF_REGEXP, self_replace, value), from index i on; `done` is
\* the set of keys on which parse_key returns at once
RECURSIVE SubSelfRef(_, _, _, _)
SubSelfRef(s, i, snapshot, done) ==
    IF i > Len(s) THEN [r |-> "val", x |-> VStr(<<>>), w |-> 0]
    ELSE LET j   == SelfRefMatch(s, i)
             key == SubSeq(s, i + 1, j - 2)
         IN  IF j = 0
             THEN LET more == SubSelfRef(s, i + 1, snapshot, done)
                  IN  IF more.r = "call" THEN more
                      ELSE [more EXCEPT !.x = VStr(<<s[i]>> \o more.x.v)]
             ELSE IF key \notin DOMAIN snapshot
             THEN LET more == SubSelfRef(s, j, snapshot, done)
                  IN  [more EXCEPT !.w = more.w + 1]
             ELSE IF key \notin done
             THEN [r |-> "call", key |-> key, w |-> 0]
             ELSE LET more == SubSelfRef(s, j, snapshot, done)
                  IN  IF more.r = "call" THEN more
                      ELSE [more EXCEPT !.x = VStr(self_replace(key, snapshot) \o more.x.v)]

\* re.fullmatch(SELF_REF_REGEXP, value)
IsFullMatch(value) == value # <<>> /\ SelfRefMatch(value, 1) = Len(value) + 1

\* replace_self_reference whose full match returns str(self.config[key])
\* (sensitivity variant of replace_self_reference)
replace_self_reference_as_text(value, snapshot, done) ==
    LET key == SubSeq(value, 2, Len(value) - 1)
    IN  IF IsFullMatch(value) /\ key \in DOMAIN snapshot
        THEN IF key \in done
             THEN [r |-> "val", x |-> VStr(PyStr(snapshot[key])), w |-> 0]
             ELSE [r |-> "call", key |-> key, w |-> 0]
        ELSE SubSelfRef(value, 1, snapshot, done)

\* replace_self_reference that passes the substituted text through
\* convert_if_possible (sensitivity variant of replace_self_reference)
replace_self_reference_cast(value, snapshot, done) ==
    LET key == SubSeq(value, 2, Len(value) - 1)
        sub == SubSelfRef(value, 1, snapshot, done)
    IN  IF IsFullMatch(value) /\ key \in DOMAIN snapshot
        THEN IF key \in done
             THEN [r |-> "val", x |-> snapshot[key], w |-> 0]
             ELSE [r |-> "call", key |-> key, w |-> 0]
        ELSE IF sub.r = "call" THEN sub
        ELSE [sub EXCEPT !.x = convert_if_possible(sub.x.v)]

replace_self_reference(value, snapshot, done) ==
    LET key == SubSeq(value, 2, Len(value) - 1)
    IN  IF IsFullMatch(value) /\ key \in DOMAIN snapshot
        THEN IF key \in done
             THEN [r |-> "val", x |-> snapshot[key], w |-> 0]
             ELSE [r |-> "call", key |-> key, w |-> 0]
        ELSE SubSelfRef(value, 1, snapshot, done)

HasPrefix(value, prefix) ==
    Len(value) >= Len(prefix) /\ SubSeq(value, 1, Len(prefix)) = prefix

AddWarnings(res, n) == [res EXCEPT !.w = res.w + n]

\* format without the NO_PARSE_STRING test (sensitivity variant of FormatStr)
FormatStr_no_escape(value, snapshot, done, environ) ==
    LET e == IF "$" \in Range(value)
             THEN replace_env_reference(value, environ)
             ELSE [r |-> "val", x |-> VStr(value), w |-> 0]
    IN  IF e.x.t # "str" THEN e
        ELSE IF "{" \in Range(e.x.v)
        THEN AddWarnings(replace_self_reference(e.x.v, snapshot, done), e.w)
        ELSE e

\* format that converts every string, with a `$` or not (sensitivity
\* variant of FormatStr)
FormatStr_always_cast(value, snapshot, done, environ) ==
    IF HasPrefix(value, NO_PARSE_STRING)
    THEN [r |-> "val", x |-> VStr(From(value, Len(NO_PARSE_STRING) + 1)), w |-> 0]
    ELSE LET e == replace_env_reference(value, environ)
         IN  IF e.x.t # "str" THEN e
             ELSE IF "{" \in Range(e.x.v)
             THEN AddWarnings(replace_self_reference(e.x.v, snapshot, done), e.w)
             ELSE e

\* Parser.format on a string
FormatStr(value, snapshot, done, environ) ==
    IF HasPrefix(value, NO_PARSE_STRING)
    THEN [r |-> "val", x |-> VStr(From(value, Len(NO_PARSE_STRING) + 1)), w |-> 0]
    ELSE LET e == IF "$" \in Range(value)
                  THEN replace_env_reference(value, environ)
                  ELSE [r |-> "val", x |-> VStr(value), w |-> 0]
         IN  IF e.x.t # "str" THEN e
             ELSE IF "{" \in Range(e.x.v)
             THEN AddWarnings(replace_self_reference(e.x.v, snapshot, done), e.w)
             ELSE e

\* Parser.format; list(map(self.format, value)) goes through FormatList
RECURSIVE format(_, _, _, _)
RECURSIVE FormatList(_, _, _, _)
FormatList(values, snapshot, done, environ) ==
    IF values = <<>> THEN [r |-> "val", x |-> VList(<<>>), w |-> 0]
    ELSE LET first == format(Head(values), snapshot, done, environ)
         IN  IF first.r = "call" THEN first
             ELSE LET more == FormatList(Tail(values), snapshot, done, environ)
                  IN  IF more.r = "call" THEN AddWarnings(more, first.w)
                      ELSE [r |-> "val", x |-> VList(<<first.x>> \o more.x.v),
                            w |-> first.w + more.w]

format(value, snapshot, done, environ) ==
    IF value.t = "list" THEN FormatList(value.v, snapshot, done, environ)
    ELSE IF value.t # "str" THEN [r |-> "val", x |-> value, w |-> 0]
    ELSE FormatStr(value.v, snapshot, done, environ)

(***************************************************************************)
(* Parser: parse and parse_key as steps.  A frame of `stack` is one        *)
(* parse_key call that has added its key to Parser.parsing: its key and    *)
(* the warnings its format call has emitted so far.  Where that format     *)
(* call stands follows from Parser.parsed: the references before that      *)
(* point are parsed, the one at that point is the key of the frame above.  *)
(***************************************************************************)
\* parse_key without the test of Parser.parsing: a key being parsed is
\* taken as parsed (sensitivity variant of parse_key)
parse_key_no_cycle_test(key, parsing_, parsed_) ==
    IF key \in parsed_ \cup parsing_ THEN "return" ELSE "format"

\* parse_key without the test of Parser.parsed: a parsed key is formatted
\* again (sensitivity variant of parse_key)
parse_key_no_memo(key, parsing_, parsed_) ==
    IF key \in parsing_ THEN "raise" ELSE "format"

\* what parse_key(key) does first: return, raise, or go on to format
parse_key(key, parsing_, parsed_) ==
    IF key \in parsed_ THEN "return"
    ELSE IF key \in parsing_ THEN "raise"
    ELSE "format"

Top == stack[Len(stack)]

\* the keys on which parse_key returns at once
Returning == {key \in DOMAIN config : parse_key(key, parsing, parsed) = "return"}

\* self.format(self.config[key]) of the innermost parse_key call
TopFormat == format(config[Top.key], config, Returning, env)

Frame(key) == [key |-> key, w |-> 0]

\* Parser.__init__ on a Config the flattening of which does not raise
ParserInit(cfg_) ==
    /\ source = cfg_
    /\ config = config_flatten(cfg_).d
    /\ parsing = {}
    /\ parsed = {}
    /\ stack = <<>>
    /\ visited = {}
    /\ status = "running"
    /\ result = EmptyDict
    /\ warns = 0

\* Parser.parse: one iteration of `for key in self.config`
ParseLoop(key) ==
    /\ status = "running"
    /\ stack = <<>>
    /\ key \in DOMAIN config \ visited
    /\ visited' = visited \cup {key}
    /\ IF parse_key(key, parsing, parsed) = "format"
       THEN /\ parsing' = parsing \cup {key}
            /\ stack' = <<Frame(key)>>
       ELSE UNCHANGED <<parsing, stack>>
    /\ UNCHANGED <<env, config, parsed, status, result, warns, source, pass>>
    /\ UNCHANGED <<flatVars, mergeVars, loadVars, mainVars>>

\* format reaches a reference to a key that is neither parsed nor being
\* parsed: parse_key(key) adds it to Parser.parsing and formats its value
ParseKeyCall ==
    /\ status = "running"
    /\ stack # <<>>
    /\ TopFormat.r = "call"
    /\ parse_key(TopFormat.key, parsing, parsed) = "format"
    /\ parsing' = parsing \cup {TopFormat.key}
    /\ stack' = [stack EXCEPT ![Len(stack)].w = TopFormat.w] \o <<Frame(TopFormat.key)>>
    /\ warns' = warns + (TopFormat.w - Top.w)
    /\ UNCHANGED <<env, config, parsed, visited, status, result, source, pass>>
    /\ UNCHANGED <<flatVars, mergeVars, loadVars, mainVars>>

\* format reaches a reference to a key that is being parsed: parse_key
\* raises RuntimeError, which leaves every call and Parser.parse
ParseKeyRaise ==
    /\ status = "running"
    /\ stack # <<>>
    /\ TopFormat.r = "call"
    /\ parse_key(TopFormat.key, parsing, parsed) = "raise"
    /\ status' = "RuntimeError"
    /\ stack' = <<>>
    /\ warns' = warns + (TopFormat.w - Top.w)
    /\ UNCHANGED <<env, config, parsing, parsed, visited, result, source, pass>>
    /\ UNCHANGED <<flatVars, mergeVars, loadVars, mainVars>>

\* the end of parse_key without self.parsing.remove(key) (sensitivity
\* variant of ParseKeyReturn)
ParseKeyReturn_no_remove ==
    /\ status = "running"
    /\ stack # <<>>
    /\ TopFormat.r = "val"
    /\ config' = [config EXCEPT ![Top.key] = TopFormat.x]
    /\ parsed' = parsed \cup {Top.key}
    /\ stack' = SubSeq(stack, 1, Len(stack) - 1)
    /\ warns' = warns + (TopFormat.w - Top.w)
    /\ UNCHANGED <<env, parsing, visited, status, result, source, pass>>
    /\ UNCHANGED <<flatVars, mergeVars, loadVars, mainVars>>

\* format returns: the end of parse_key
ParseKeyReturn ==
    /\ status = "running"
    /\ stack # <<>>
    /\ TopFormat.r = "val"
    /\ config' = [config EXCEPT ![Top.key] = TopFormat.x]
    /\ parsing' = parsing \ {Top.key}
    /\ parsed' = parsed \cup {Top.key}
    /\ stack' = SubSeq(stack, 1, Len(stack) - 1)
    /\ warns' = warns + (TopFormat.w - Top.w)
    /\ UNCHANGED <<env, visited, status, result, source, pass>>
    /\ UNCHANGED <<flatVars, mergeVars, loadVars, mainVars>>

\* Parser.parse: the loop is over, return config_unflatten(self.config)
ParseReturn ==
    /\ status = "running"
    /\ stack = <<>>
    /\ visited = DOMAIN config
    /\ LET tree == config_unflatten(config)
       IN  IF tree.ok
           THEN status' = "done" /\ result' = tree.d
           ELSE status' = "ValueError" /\ UNCHANGED result
    /\ UNCHANGED <<env, config, parsing, parsed, stack, visited, warns, source, pass>>
    /\ UNCHANGED <<flatVars, mergeVars, loadVars, mainVars>>

(***************************************************************************)
(* The configurations and environments the Parser is run on                *)
(***************************************************************************)
\* how many times in a row a configuration is resolved
MaxPass == 2

KeyA  == <<"a">>
KeyB  == <<"b">>
KeyT  == <<"t">>
KeyC  == <<"c">>
KeyTC == <<"t", ".", "c">>

EnvX == <<"X">>

Leaves ==
    { VInt(1), VInt(2), VBool(TRUE), VFloat(<<"0", ".", "5">>), VStr(<<"x">>),
      VList(<<VInt(1), VStr(<<"x">>)>>) }

FullReferences ==
    { VStr(<<"{","a","}">>), VStr(<<"{","b","}">>),
      VStr(<<"{","t",".","c","}">>), VStr(<<"{","z","}">>) }

PartialReferences ==
    { VStr(<<"x","{","a","}">>), VStr(<<"{","a","}","{","b","}">>),
      VStr(<<"v","-","{","t",".","c","}">>), VStr(<<"x","{","z","}">>) }

EnvReferences ==
    { VStr(<<"$","X">>), VStr(<<"$","{","X","}">>), VStr(<<"1","$","X">>),
      VStr(<<"x","_","$","{","X","}","_","y">>), VStr(<<"$","M">>),
      VStr(<<"$","X","{","b","}">>) }

Escaped ==
    { VStr(<<"!","P","$","X">>), VStr(<<"!","P","{","a","}">>) }

ReferenceLists ==
    { VList(<<VStr(<<"{","b","}">>), VStr(<<"$","X">>)>>),
      VList(<<VStr(<<"{","z","}">>), VStr(<<"!","P","{","a","}">>)>>) }

\* the values of key a, of key b and of key t.c
ValuesA ==
    Leaves \cup FullReferences \cup PartialReferences \cup EnvReferences
           \cup Escaped \cup ReferenceLists

ValuesB ==
    (Leaves \ {VInt(1)})
    \cup { VStr(<<"{","a","}">>), VStr(<<"{","t",".","c","}">>),
           VStr(<<"x","{","a","}">>), VStr(<<"$","X">>), VStr(<<"!","P","{","a","}">>) }

ValuesC ==
    { VInt(1), VStr(<<"x">>), VList(<<VInt(1), VStr(<<"x">>)>>),
      VStr(<<"{","a","}">>), VStr(<<"{","a","}","{","b","}">>), VStr(<<"$","M">>) }

\* the texts of $X; in the first environment X is not set
EnvTexts == { <<"2">>, <<"a","b">>, <<"t","r","u","e">>, <<"0",".","5">> }

Environments == {EmptyDict} \cup { (EnvX :> text) : text \in EnvTexts }

\* {"a": va, "b": vb, "t": {"c": vc}}
Source(va, vb, vc) ==
    (KeyA :> va) @@ (KeyB :> vb) @@ (KeyT :> VMap(KeyC :> vc))

RECURSIVE HasChar(_, _)
HasChar(value, c) ==
    IF value.t = "str" THEN c \in Range(value.v)
    ELSE IF value.t = "list" THEN \E i \in DOMAIN value.v : HasChar(value.v[i], c)
    ELSE IF value.t = "map" THEN \E k \in DOMAIN value.v : HasChar(value.v[k], c)
    ELSE FALSE

FlatIdle ==
    /\ cfg = EmptyDict
    /\ todo = {}
    /\ unflattened_cfg = EmptyDict
    /\ outcome = "idle"

MergeIdle ==
    /\ heap = <<>>
    /\ cfg_1 = EmptyDict
    /\ cfg_2 = EmptyDict
    /\ new_key_policy = <<>>
    /\ items_order = <<>>
    /\ merged = [raised |-> "idle"]

LoadIdle ==
    /\ files = EmptyDict
    /\ config_file = <<>>
    /\ args = <<>>
    /\ loaded = [raised |-> "idle"]
    /\ built = [raised |-> "idle"]

MainIdle ==
    /\ debug = FALSE
    /\ effects = <<>>

\* Parser(source) in an environment; the environment is only varied for a
\* configuration that has a `$` in it
Init ==
    /\ \E va \in ValuesA, vb \in ValuesB, vc \in ValuesC :
          ParserInit(Source(va, vb, vc))
    /\ env \in Environments
    /\ (\A k \in DOMAIN config : ~HasChar(config[k], "$")) => env = EmptyDict
    /\ pass = 1
    /\ FlatIdle
    /\ MergeIdle
    /\ LoadIdle
    /\ MainIdle

\* Parser(result).parse(): the configuration just resolved is resolved again
Reparse ==
    /\ status = "done"
    /\ pass < MaxPass
    /\ pass' = pass + 1
    /\ source' = result
    /\ config' = config_flatten(result).d
    /\ parsing' = {}
    /\ parsed' = {}
    /\ stack' = <<>>
    /\ visited' = {}
    /\ status' = "running"
    /\ result' = EmptyDict
    /\ warns' = 0
    /\ UNCHANGED env
    /\ UNCHANGED <<flatVars, mergeVars, loadVars, mainVars>>

Next ==
    \/ \E key \in DOMAIN config : ParseLoop(key)
    \/ ParseKeyCall
    \/ ParseKeyRaise
    \/ ParseKeyReturn
    \/ ParseReturn
    \/ Reparse

Spec == Init /\ [][Next]_vars

(***************************************************************************)
(* The reference graph of a snapshot, read off the values as given         *)
(***************************************************************************)
\* the flattened snapshot the Parser started from
Snapshot == config_flatten(source).d

\* the strings of a value: itself, or the strings among its elements
RECURSIVE Texts(_)
Texts(value) ==
    IF value.t = "str" THEN {value.v}
    ELSE IF value.t \in {"list", "map"}
    THEN UNION {Texts(value.v[i]) : i \in DOMAIN value.v}
    ELSE {}

IsEscaped(s) == HasPrefix(s, NO_PARSE_STRING)

\* where a self-reference token starts in s; the braces of ${NAME} are an
\* environment reference, not a token
TokenStarts(s) ==
    {i \in DOMAIN s : /\ SelfRefMatch(s, i) # 0
                      /\ ~(i > 1 /\ EnvVarBracketMatch(s, i - 1) # 0)}

TokenAt(s, i) == SubSeq(s, i + 1, SelfRefMatch(s, i) - 2)

\* the names the self-reference tokens of s refer to
TokenKeys(s) == IF IsEscaped(s) THEN {} ELSE {TokenAt(s, i) : i \in TokenStarts(s)}

\* the existing keys the value of key refers to
References(snapshot, key) ==
    (UNION {TokenKeys(s) : s \in Texts(snapshot[key])}) \cap DOMAIN snapshot

RECURSIVE Closure(_, _)
Closure(snapshot, keys) ==
    LET more == keys \cup UNION {References(snapshot, k) : k \in keys}
    IN  IF more = keys THEN keys ELSE Closure(snapshot, more)

\* the keys that key depends on, directly or not
DependsOn(snapshot, key) == Closure(snapshot, References(snapshot, key))

Cyclic(snapshot) == \E key \in DOMAIN snapshot : key \in DependsOn(snapshot, key)

LoopOver == visited = DOMAIN config /\ stack = <<>>

(***************************************************************************)
(* C1: whenever some key of the snapshot depends on itself through         *)
(* self-reference tokens naming existing keys (a -> a, a -> b -> a, longer *)
(* cycles; full-match or partial-match; whichever key is visited first),   *)
(* parse() does not return: its loop never completes and it never yields   *)
(* a result, it ends with the RuntimeError of parse_key.                   *)
(***************************************************************************)
C1_CycleRaises ==
    Cyclic(Snapshot) =>
        /\ status \in {"running", "RuntimeError"}
        /\ status = "running" => ~LoopOver

\* a -> b -> t.c -> a has been run and has raised
C1_Witness ==
    /\ status = "RuntimeError"
    /\ Snapshot[KeyA] = VStr(<<"{","b","}">>)
    /\ Snapshot[KeyB] = VStr(<<"{","t",".","c","}">>)
    /\ Snapshot[KeyTC] = VStr(<<"{","a","}">>)

(***************************************************************************)
(* C2: when the reference graph is acyclic parse() never raises the        *)
(* RuntimeError; a key that is parsed is never again in Parser.parsing nor *)
(* on the stack of parse_key calls; and when two keys are each a           *)
(* full-match reference to a shared third key (a diamond), both end with   *)
(* the resolved value of the shared key.                                   *)
(***************************************************************************)
IsReferenceTo(value, key) ==
    value.t = "str" /\ IsFullMatch(value.v) /\ TokenKeys(value.v) = {key}

C2_AcyclicResolves ==
    /\ status = "RuntimeError" => Cyclic(Snapshot)
    /\ parsing \cap parsed = {}
    /\ \A i \in DOMAIN stack : stack[i].key \notin parsed
    /\ status = "done" =>
          \A k1, k2, k3 \in DOMAIN Snapshot :
              ( /\ k1 # k2 /\ k1 # k3 /\ k2 # k3
                /\ IsReferenceTo(Snapshot[k1], k3)
                /\ IsReferenceTo(Snapshot[k2], k3) )
              => /\ parsed = DOMAIN Snapshot
                 /\ config[k1] = config[k3]
                 /\ config[k2] = config[k3]

\* the diamond {"a": "{t.c}", "b": "{t.c}", "t": {"c": 1}} has been resolved
C2_Witness ==
    /\ status = "done"
    /\ pass = 1
    /\ Snapshot[KeyA] = VStr(<<"{","t",".","c","}">>)
    /\ Snapshot[KeyB] = VStr(<<"{","t",".","c","}">>)
    /\ Snapshot[KeyTC] = VInt(1)
    /\ result[KeyA] = VInt(1)
    /\ result[KeyB] = VInt(1)

(***************************************************************************)
(* What parse() returned for a key, and what the substitutions had to do   *)
(***************************************************************************)
RECURSIVE Lookup(_, _)
Lookup(tree, keys) ==
    IF Len(keys) = 1 THEN tree[keys[1]]
    ELSE Lookup(tree[Head(keys)].v, Tail(keys))

\* the value of the flat key in the tree parse() returned
Resolved(key) == Lookup(result, Split(key))

\* value after both re.sub of replace_env_reference, before any conversion
SubstitutedText(value) == SubEnvVarBracket(SubEnvVar(value, 1, env).s, 1, env).s

\* a string as it stands when format looks for `{` in it
AfterEnv(value) ==
    IF "$" \in Range(value) THEN convert_if_possible(SubstitutedText(value))
    ELSE VStr(value)

HasToken(s) == \E i \in DOMAIN s : SelfRefMatch(s, i) # 0

\* s holds tokens and is not one token naming a key of the snapshot
IsPartialMatch(s) ==
    HasToken(s) /\ ~(IsFullMatch(s) /\ TokenAt(s, 1) \in DOMAIN Snapshot)

\* s with every token replaced by the text of the final value of its key,
\* or by nothing when the key does not exist; the rest of s as it is
RECURSIVE Splice(_, _, _)
Splice(s, i, final) ==
    IF i > Len(s) THEN <<>>
    ELSE IF SelfRefMatch(s, i) = 0 THEN <<s[i]>> \o Splice(s, i + 1, final)
    ELSE (IF TokenAt(s, i) \in DOMAIN final THEN PyStr(final[TokenAt(s, i)]) ELSE <<>>)
         \o Splice(s, SelfRefMatch(s, i), final)

(***************************************************************************)
(* C3: a full-match self reference keeps the type: when the value of a key *)
(* (or an element of its list) is exactly one token {k} and k is a key of  *)
(* the snapshot, the value parse() returns for it is the resolved value of *)
(* k, of the same variant, not its text.                                   *)
(***************************************************************************)
C3_FullMatchKeepsType ==
    status = "done" =>
        \A key, k \in DOMAIN Snapshot :
            /\ IsReferenceTo(Snapshot[key], k) => Resolved(key) = Resolved(k)
            /\ Snapshot[key].t = "list" =>
                  \A i \in DOMAIN Snapshot[key].v :
                      IsReferenceTo(Snapshot[key].v[i], k)
                          => Resolved(key).v[i] = Resolved(k)

\* {"a": "{b}", "b": [1, "x"]} has been resolved: a is the list
C3_Witness ==
    /\ status = "done"
    /\ pass = 1
    /\ Snapshot[KeyA] = VStr(<<"{","b","}">>)
    /\ Snapshot[KeyB] = VList(<<VInt(1), VStr(<<"x">>)>>)
    /\ Resolved(KeyA) = VList(<<VInt(1), VStr(<<"x">>)>>)

(***************************************************************************)
(* C4: a partial-match self reference yields a string: when a string that  *)
(* is not escaped holds tokens and is not one token naming a key, parse()  *)
(* returns for it the string in which every token naming a key is replaced *)
(* by str() of the resolved value of the key, every other token by         *)
(* nothing, and the text around them is kept; this is a string also when   *)
(* it reads as a number ({a}{b} with a = 1, b = 2 gives "12").             *)
(***************************************************************************)
C4_PartialMatchIsString ==
    status = "done" =>
        \A key \in DOMAIN Snapshot :
            ( /\ Snapshot[key].t = "str"
              /\ ~IsEscaped(Snapshot[key].v)
              /\ AfterEnv(Snapshot[key].v).t = "str"
              /\ IsPartialMatch(AfterEnv(Snapshot[key].v).v) )
            => Resolved(key) = VStr(Splice(AfterEnv(Snapshot[key].v).v, 1, config))

\* {"a": 1, "b": 2, "t": {"c": "{a}{b}"}} has been resolved: t.c is "12"
C4_Witness ==
    /\ status = "done"
    /\ pass = 1
    /\ Snapshot[KeyA] = VInt(1)
    /\ Snapshot[KeyB] = VInt(2)
    /\ Snapshot[KeyTC] = VStr(<<"{","a","}","{","b","}">>)
    /\ Resolved(KeyTC) = VStr(<<"1","2">>)

(***************************************************************************)
(* C5: environment substitution and the type of the value.                 *)
(***************************************************************************)
HasEnvReference(s) ==
    \E i \in DOMAIN s : EnvVarMatch(s, i) # 0 \/ EnvVarBracketMatch(s, i) # 0

\* C5 as stated: a value in which an environment reference is embedded in
\* surrounding text always resolves to a string
C5_EmbeddedStaysString ==
    status = "done" =>
        \A key \in DOMAIN Snapshot :
            ( /\ Snapshot[key].t = "str"
              /\ ~IsEscaped(Snapshot[key].v)
              /\ HasEnvReference(Snapshot[key].v)
              /\ ~IsWholeEnvReference(Snapshot[key].v) )
            => Resolved(key).t = "str"

\* C5 as amended: a value with a `$` in it resolves to what
\* convert_if_possible makes of the whole text after substitution, be the
\* value one reference or a reference in surrounding text: an integer, a
\* float or a boolean when that text reads as one, and otherwise a string
\* (which then undergoes self-reference substitution if it holds a `{`)
C5_TypeFollowsSubstitutedText ==
    status = "done" =>
        \A key \in DOMAIN Snapshot :
            ( /\ Snapshot[key].t = "str"
              /\ ~IsEscaped(Snapshot[key].v)
              /\ "$" \in Range(Snapshot[key].v) )
            => LET text == SubstitutedText(Snapshot[key].v)
                   cast == convert_if_possible(text)
               IN  /\ cast.t # "str" => Resolved(key) = cast
                   /\ cast.t = "str" /\ "{" \notin Range(text)
                          => Resolved(key) = VStr(text)
                   /\ Resolved(key).t # "str" => cast.t # "str" \/ IsFullMatch(text)

\* {"a": "1$X"} with X=2 has been resolved: a is the integer 12
C5_Witness ==
    /\ status = "done"
    /\ pass = 1
    /\ Snapshot[KeyA] = VStr(<<"1","$","X">>)
    /\ env = (EnvX :> <<"2">>)
    /\ Resolved(KeyA) = VInt(12)

(***************************************************************************)
(* C6: references to undefined names.                                      *)
(***************************************************************************)
BareName(s, i) == SubSeq(s, i + 1, EnvVarMatch(s, i) - 1)

BracketName(s, i) == SubSeq(s, i + 2, EnvVarBracketMatch(s, i) - 2)

\* the occurrences in s of references to names that are not defined
UnsetBare(s) ==
    {i \in DOMAIN s : EnvVarMatch(s, i) # 0 /\ BareName(s, i) \notin DOMAIN env}

UnsetBracket(s) ==
    {i \in DOMAIN s : EnvVarBracketMatch(s, i) # 0 /\ BracketName(s, i) \notin DOMAIN env}

MissingKeys(s) == {i \in TokenStarts(s) : TokenAt(s, i) \notin DOMAIN Snapshot}

RECURSIVE UndefinedIn(_)
RECURSIVE UndefinedInList(_)
UndefinedInList(values) ==
    IF values = <<>> THEN 0
    ELSE UndefinedIn(Head(values)) + UndefinedInList(Tail(values))

\* how many references to undefined names the value holds
UndefinedIn(value) ==
    IF value.t = "list" THEN UndefinedInList(value.v)
    ELSE IF value.t # "str" \/ IsEscaped(value.v) THEN 0
    ELSE Cardinality(UnsetBare(value.v)) + Cardinality(UnsetBracket(value.v))
         + Cardinality(MissingKeys(value.v))

RECURSIVE UndefinedInKeys(_)
UndefinedInKeys(keys) ==
    IF keys = {} THEN 0
    ELSE LET key == CHOOSE k \in keys : TRUE
         IN  UndefinedIn(Snapshot[key]) + UndefinedInKeys(keys \ {key})

\* s without its environment references and its tokens
RECURSIVE Blank(_, _)
Blank(s, i) ==
    IF i > Len(s) THEN <<>>
    ELSE IF EnvVarMatch(s, i) # 0 THEN Blank(s, EnvVarMatch(s, i))
    ELSE IF EnvVarBracketMatch(s, i) # 0 THEN Blank(s, EnvVarBracketMatch(s, i))
    ELSE IF SelfRefMatch(s, i) # 0 THEN Blank(s, SelfRefMatch(s, i))
    ELSE <<s[i]>> \o Blank(s, i + 1)

\* every reference of s is to an undefined name, and there is one
AllUndefined(s) ==
    /\ ~IsEscaped(s)
    /\ HasEnvReference(s) \/ TokenStarts(s) # {}
    /\ \A i \in DOMAIN s :
          /\ EnvVarMatch(s, i) # 0 => i \in UnsetBare(s)
          /\ EnvVarBracketMatch(s, i) # 0 => i \in UnsetBracket(s)
          /\ i \in TokenStarts(s) => i \in MissingKeys(s)

\* such a string with the empty string in the place of every reference
Blanked(s) ==
    IF "$" \in Range(s) THEN convert_if_possible(Blank(s, 1)) ELSE VStr(Blank(s, 1))

\* C6: a reference to an undefined name never aborts: parse() ends with
\* the RuntimeError only when the snapshot has a cycle; when it returns,
\* it has emitted exactly one warning for each occurrence of a reference
\* to an unset environment variable and of a token naming an absent key,
\* in strings and in elements of lists, and a string (or element) whose
\* references are all undefined has the empty string in the place of each
C6_UndefinedIsEmptyAndWarns ==
    /\ ~Cyclic(Snapshot) /\ UndefinedInKeys(DOMAIN Snapshot) > 0
          => status \in {"running", "done"}
    /\ status = "done" =>
          /\ warns = UndefinedInKeys(DOMAIN Snapshot)
          /\ \A key \in DOMAIN Snapshot :
                /\ Snapshot[key].t = "str" /\ AllUndefined(Snapshot[key].v)
                      => Resolved(key) = Blanked(Snapshot[key].v)
                /\ Snapshot[key].t = "list" =>
                      \A i \in DOMAIN Snapshot[key].v :
                          ( /\ Snapshot[key].v[i].t = "str"
                            /\ AllUndefined(Snapshot[key].v[i].v) )
                          => Resolved(key).v[i] = Blanked(Snapshot[key].v[i].v)

\* {"a": ["{z}", "!P{a}"], "b": "x", "t": {"c": "$M"}} has been resolved
\* with two warnings
C6_Witness ==
    /\ status = "done"
    /\ pass = 1
    /\ Snapshot[KeyA] = VList(<<VStr(<<"{","z","}">>), VStr(<<"!","P","{","a","}">>)>>)
    /\ Snapshot[KeyTC] = VStr(<<"$","M">>)
    /\ Resolved(KeyA).v[1] = VStr(<<>>)
    /\ Resolved(KeyTC) = VStr(<<>>)
    /\ warns = 2

(***************************************************************************)
(* C7: a string that starts with `!P` resolves to the rest of it, as it    *)
(* is; while it is formatted no parse_key call is made and no warning is   *)
(* emitted, so that a snapshot whose strings are all escaped resolves      *)
(* without RuntimeError and without warning.                               *)
(***************************************************************************)
Unescape(s) == From(s, Len(NO_PARSE_STRING) + 1)

IsEscapedValue(value) == value.t = "str" /\ IsEscaped(value.v)

AllEscaped ==
    \A key \in DOMAIN Snapshot : \A s \in Texts(Snapshot[key]) : IsEscaped(s)

C7_EscapedIsVerbatim ==
    /\ status = "done" =>
          \A key \in DOMAIN Snapshot :
              /\ IsEscapedValue(Snapshot[key])
                    => Resolved(key) = VStr(Unescape(Snapshot[key].v))
              /\ Snapshot[key].t = "list" =>
                    \A i \in DOMAIN Snapshot[key].v :
                        IsEscapedValue(Snapshot[key].v[i])
                            => Resolved(key).v[i] = VStr(Unescape(Snapshot[key].v[i].v))
    /\ \A i \in DOMAIN stack :
          IsEscapedValue(Snapshot[stack[i].key]) => i = Len(stack) /\ stack[i].w = 0
    /\ AllEscaped => status # "RuntimeError" /\ warns = 0

\* {"a": "!P$X", "b": "!P{a}"} with X set has been resolved
C7_Witness ==
    /\ status = "done"
    /\ pass = 1
    /\ EnvX \in DOMAIN env
    /\ Snapshot[KeyA] = VStr(<<"!","P","$","X">>)
    /\ Snapshot[KeyB] = VStr(<<"!","P","{","a","}">>)
    /\ Resolved(KeyA) = VStr(<<"$","X">>)
    /\ Resolved(KeyB) = VStr(<<"{","a","}">>)
    /\ warns = 0

(***************************************************************************)
(* C8: resolving twice.                                                    *)
(***************************************************************************)
\* C8 as stated: resolving the result of a resolve again, in the same
\* environment, succeeds and yields that result
C8_Idempotent ==
    pass > 1 /\ status # "running" => status = "done" /\ result = source

\* no string of the tree is escaped or holds a `$` or a `{`
Inert(tree) ==
    \A s \in Texts(VMap(tree)) :
        ~IsEscaped(s) /\ "$" \notin Range(s) /\ "{" \notin Range(s)

\* C8 as amended: resolving the result of a resolve again yields that
\* result when no string of the result starts with `!P` or holds a `$` or
\* a `{`
C8_IdempotentWhenInert ==
    pass > 1 /\ status # "running" /\ Inert(source)
        => status = "done" /\ result = source

\* the result {"a": 1, "b": 2, "t": {"c": "12"}} has been resolved again
C8_Witness ==
    /\ pass > 1
    /\ status = "done"
    /\ Inert(source)
    /\ source[KeyA] = VInt(1)
    /\ source[KeyB] = VInt(2)
    /\ source[KeyT] = VMap(KeyC :> VStr(<<"1","2">>))
    /\ result = source

(***************************************************************************)
(* config_flatten followed by config_unflatten                             *)
(* The tree `source` is flattened into `cfg`, then the loop of             *)
(* config_unflatten iterates the items of cfg in any order, an iteration   *)
(* per step.  outcome is "flatten", "unflatten", "returned",               *)
(* "flatten raised" or "unflatten raised" (both are ValueError).           *)
(***************************************************************************)
MaxDepth == 2

MaxLeaves == 2

\* key segments: the empty string, "a" and "b"
Segments == {<<>>, KeyA, KeyB}

RECURSIVE Paths(_)
Paths(depth) ==
    IF depth = 1 THEN {<<s>> : s \in Segments}
    ELSE Paths(depth - 1)
            \cup {p \o <<s>> : p \in Paths(depth - 1), s \in Segments}

\* ".".join(path)
RECURSIVE Join(_)
Join(path) ==
    IF Len(path) = 1 THEN Head(path)
    ELSE Head(path) \o Dot \o Join(Tail(path))

\* what a path of a tree ends with: a leaf (here the text of the path, so
\* that no two leaves are equal) or an empty mapping node
Ends(path) == {VStr(Join(path)), VMap(EmptyDict)}

Entries ==
    UNION {{[path |-> p, node |-> n] : n \in Ends(p)} : p \in Paths(MaxDepth)}

\* the subsets of S of at most n elements
RECURSIVE SetsOf(_, _)
SetsOf(S, n) ==
    IF n = 0 THEN {{}}
    ELSE LET smaller == SetsOf(S, n - 1)
         IN  smaller \cup {s \cup {e} : s \in smaller, e \in S}

IsPrefix(p, q) == Len(p) <= Len(q) /\ SubSeq(q, 1, Len(p)) = p

StrictPrefix(p, q) == IsPrefix(p, q) /\ p # q

\* the tree that has exactly the entries E (no path a prefix of another)
RECURSIVE Tree(_)
Tree(E) ==
    [k \in {Head(e.path) : e \in E} |->
        LET below == {e \in E : Head(e.path) = k}
        IN  IF \E e \in below : Len(e.path) = 1
            THEN (CHOOSE e \in below : TRUE).node
            ELSE VMap(Tree({[path |-> Tail(e.path), node |-> e.node] : e \in below}))]

Trees ==
    {Tree(E) : E \in {X \in SetsOf(Entries, MaxLeaves) :
                        \A e1, e2 \in X : e1 # e2 => ~IsPrefix(e1.path, e2.path)}}

\* flat maps: dotted keys as the only level, a key a prefix of another or not
FlatMaps ==
    {[k \in {Join(p) : p \in P} |-> VStr(k)] :
        P \in SetsOf(Paths(MaxDepth), MaxLeaves)}

ParserIdle ==
    /\ env = EmptyDict
    /\ config = EmptyDict
    /\ parsing = {}
    /\ parsed = {}
    /\ stack = <<>>
    /\ visited = {}
    /\ status = "idle"
    /\ result = EmptyDict
    /\ warns = 0
    /\ pass = 0

InitFlat ==
    /\ source \in Trees \cup FlatMaps
    /\ cfg = EmptyDict
    /\ todo = {}
    /\ unflattened_cfg = EmptyDict
    /\ outcome = "flatten"
    /\ ParserIdle
    /\ MergeIdle
    /\ LoadIdle
    /\ MainIdle

\* flat = config_flatten(source), then config_unflatten(flat) is entered
Flatten ==
    /\ outcome = "flatten"
    /\ LET flattened == config_flatten(source)
       IN  IF flattened.ok
           THEN /\ cfg' = flattened.d
                /\ todo' = DOMAIN flattened.d
                /\ outcome' = "unflatten"
           ELSE /\ outcome' = "flatten raised"
                /\ UNCHANGED <<cfg, todo>>
    /\ UNCHANGED <<unflattened_cfg, parserVars, mergeVars, loadVars, mainVars>>

\* one iteration of `for key, value in cfg.items()`
UnflattenStep(key) ==
    /\ outcome = "unflatten"
    /\ key \in todo
    /\ LET set == UnflattenKey(unflattened_cfg, Split(key), cfg[key])
       IN  IF set.ok
           THEN /\ unflattened_cfg' = set.d
                /\ todo' = todo \ {key}
                /\ UNCHANGED outcome
           ELSE /\ outcome' = "unflatten raised"
                /\ UNCHANGED <<unflattened_cfg, todo>>
    /\ UNCHANGED <<cfg, parserVars, mergeVars, loadVars, mainVars>>

\* return unflattened_cfg
UnflattenReturn ==
    /\ outcome = "unflatten"
    /\ todo = {}
    /\ outcome' = "returned"
    /\ UNCHANGED <<cfg, todo, unflattened_cfg, parserVars, mergeVars, loadVars, mainVars>>

NextFlat ==
    \/ Flatten
    \/ \E key \in todo : UnflattenStep(key)
    \/ UnflattenReturn

SpecFlat == InitFlat /\ [][NextFlat]_vars

\* no key of the tree, at any depth, has a `.` in it
RECURSIVE NoDotKeys(_)
NoDotKeys(tree) ==
    \A k \in DOMAIN tree :
        /\ "." \notin Range(k)
        /\ tree[k].t = "map" => NoDotKeys(tree[k].v)

\* C9 as stated: for every collision-free tree (keys without `.`, empty
\* mapping nodes included) config_unflatten(config_flatten(t)) returns t
C9_RoundTrip ==
    NoDotKeys(source) /\ outcome # "flatten" /\ outcome # "flatten raised"
        => /\ outcome # "unflatten raised"
           /\ outcome = "returned" => unflattened_cfg = source

\* every key of the tree is a non-empty string without `.`, and no mapping
\* node below the root is empty
RECURSIVE Plain(_)
Plain(tree) ==
    \A k \in DOMAIN tree :
        /\ k # <<>>
        /\ "." \notin Range(k)
        /\ tree[k].t = "map" => tree[k].v # EmptyDict /\ Plain(tree[k].v)

\* C9 as amended: for every tree whose keys are non-empty and without `.`
\* and whose mapping nodes below the root are not empty, config_flatten
\* does not raise, config_unflatten of its result does not raise under any
\* iteration order, and it returns the tree
C9_RoundTripOfPlainTrees ==
    Plain(source)
        => /\ outcome # "flatten raised"
           /\ outcome # "unflatten raised"
           /\ outcome = "returned" => unflattened_cfg = source

\* {"a": {"a": "a.a", "b": "a.b"}} has been flattened and unflattened
C9_Witness ==
    /\ outcome = "returned"
    /\ Plain(source)
    /\ source = (KeyA :> VMap((KeyA :> VStr(<<"a", ".", "a">>))
                              @@ (KeyB :> VStr(<<"a", ".", "b">>))))
    /\ DOMAIN cfg = {<<"a", ".", "a">>, <<"a", ".", "b">>}
    /\ unflattened_cfg = source

\* some key of the flat map is a strict dotted-path prefix of another
PrefixPair(flat) ==
    \E k1, k2 \in DOMAIN flat : StrictPrefix(Split(k1), Split(k2))

\* C10: config_unflatten raises, in whichever order the keys are iterated,
\* when a key of the flat map is a strict dotted-path prefix of another,
\* and returns when no key is
C10_PrefixPairRaises ==
    /\ outcome = "returned" => ~PrefixPair(cfg)
    /\ outcome = "unflatten raised" => PrefixPair(cfg)
    /\ outcome = "unflatten" /\ PrefixPair(cfg) => todo # {}

\* {"a": .., "a.b": ..}: "a.b" was iterated first and "a" has raised
C10_Witness ==
    /\ outcome = "unflatten raised"
    /\ DOMAIN cfg = {KeyA, <<"a", ".", "b">>}
    /\ todo = {KeyA}
    /\ unflattened_cfg = (KeyA :> VMap(KeyB :> VStr(<<"a", ".", "b">>)))

(***************************************************************************)
(* merge                                                                   *)
(* Dicts and lists are objects: heap[a] is the object at address a, a dict *)
(* [t |-> "map", v |-> key -> cell] or a list [t |-> "list", v |-> _].     *)
(* A cell is a bool, int, float or str value, or a reference to an object. *)
(* A result is [heap, raised, cell, warns]: the memory after the call, the *)
(* exception ("" when the call returned), the value returned, the warnings *)
(* emitted.                                                                *)
(***************************************************************************)
Ref(a) == [t |-> "ref", v |-> a]

None == [t |-> "none", v |-> <<>>]

\* a value stored in memory: the memory after it, and the cell that holds it
RECURSIVE Alloc(_, _)
RECURSIVE AllocItems(_, _, _, _)
Alloc(heap_, value) ==
    IF value.t = "list"
    THEN [heap |-> Append(heap_, value), cell |-> Ref(Len(heap_) + 1)]
    ELSE IF value.t = "map"
    THEN LET items == AllocItems(heap_, value.v, DOMAIN value.v, EmptyDict)
         IN  [heap |-> Append(items.heap, VMap(items.d)),
              cell |-> Ref(Len(items.heap) + 1)]
    ELSE [heap |-> heap_, cell |-> value]

AllocItems(heap_, tree, keys, d) ==
    IF keys = {} THEN [heap |-> heap_, d |-> d]
    ELSE LET key  == CHOOSE k \in keys : TRUE
             item == Alloc(heap_, tree[key])
         IN  AllocItems(item.heap, tree, keys \ {key}, d @@ (key :> item.cell))

\* the value a cell stands for
RECURSIVE Deref(_, _)
Deref(heap_, cell) ==
    IF cell.t # "ref" THEN cell
    ELSE LET object == heap_[cell.v]
         IN  IF object.t = "map"
             THEN VMap([k \in DOMAIN object.v |-> Deref(heap_, object.v[k])])
             ELSE object

\* the addresses of the objects a cell gives access to
RECURSIVE Reach(_, _)
Reach(heap_, cell) ==
    IF cell.t # "ref" THEN {}
    ELSE LET object == heap_[cell.v]
         IN  {cell.v} \cup
             (IF object.t = "map"
              THEN UNION {Reach(heap_, object.v[k]) : k \in DOMAIN object.v}
              ELSE {})

\* type(x)
TypeOf(heap_, cell) == IF cell.t = "ref" THEN heap_[cell.v].t ELSE cell.t

\* isinstance(value, type(previous_value)): bool is a subclass of int
IsInstance(heap_, value, previous_value) ==
    \/ TypeOf(heap_, value) = TypeOf(heap_, previous_value)
    \/ TypeOf(heap_, value) = "bool" /\ TypeOf(heap_, previous_value) = "int"

\* a copy that is the object itself
deepcopy_alias(heap_, cell) == [heap |-> heap_, cell |-> cell]

\* copy.deepcopy
deepcopy(heap_, cell) == Alloc(heap_, Deref(heap_, cell))

\* cfg[key] = value, cfg the dict at address a
SetItem(heap_, a, key, cell) ==
    [heap_ EXCEPT ![a] = VMap((key :> cell) @@ heap_[a].v)]

\* dict.items(): the keys of the dict at address a, in the order of `order`
ItemsOf(heap_, a, order) ==
    SelectSeq(order, LAMBDA k : k \in DOMAIN heap_[a].v)

Dunder == <<"_", "_">>

Raise == <<"r","a","i","s","e">>

Warn == <<"w","a","r","n">>

Pass == <<"p","a","s","s">>

Policies == {Raise, Warn, Pass}

RECURSIVE merge(_, _, _, _, _)
RECURSIVE MergeItems(_, _, _, _, _, _, _)
\* the recursive call made with the default policy
MergeSub_default_policy(heap_, previous_value, value, policy, order) ==
    merge(heap_, previous_value, value, Warn, order)

\* the dict of cfg_2 put in place of the dict of cfg_1, not merged into it
\* (sensitivity variant of the recursive call)
MergeSub_replace(heap_, previous_value, value, policy, order) ==
    [heap |-> heap_, raised |-> "", cell |-> value, warns |-> <<>>]

\* merge(previous_value, cast(dict, value), new_key_policy)
MergeSub(heap_, previous_value, value, policy, order) ==
    merge(heap_, previous_value, value, policy, order)

\* the loop of merge over the items `keys` of cfg_2_, cfg the address of the
\* dict being built
MergeItems(heap_, cfg_, cfg_2_, keys, policy, order, warns_) ==
    IF keys = <<>>
    THEN [heap |-> heap_, raised |-> "", cell |-> Ref(cfg_), warns |-> warns_]
    ELSE
    LET key   == Head(keys)
        copy  == deepcopy(heap_, heap_[cfg_2_.v].v[key])
        value == copy.cell
        h     == copy.heap
        Set(w) == MergeItems(SetItem(h, cfg_, key, value), cfg_, cfg_2_,
                             Tail(keys), policy, order, w)
    IN  IF key \notin DOMAIN h[cfg_].v
        THEN IF HasPrefix(key, Dunder) THEN Set(warns_)
             ELSE IF policy = Raise
             THEN [heap |-> h, raised |-> "KeyError", cell |-> None,
                   warns |-> warns_]
             ELSE IF policy = Warn
             THEN Set(Append(warns_, [kind |-> "new key", key |-> key]))
             ELSE Set(warns_)
        ELSE
        LET previous_value == h[cfg_].v[key]
        IN  IF ~IsInstance(h, value, previous_value)
            THEN Set(Append(warns_, [kind |-> "type", key |-> key]))
            ELSE IF TypeOf(h, previous_value) = "map"
            THEN LET sub == MergeSub(h, previous_value, value, policy, order)
                 IN  IF sub.raised # ""
                     THEN [sub EXCEPT !.warns = warns_ \o sub.warns]
                     ELSE MergeItems(SetItem(sub.heap, cfg_, key, sub.cell),
                                     cfg_, cfg_2_, Tail(keys), policy, order,
                                     warns_ \o sub.warns)
            ELSE Set(warns_)

merge(heap_, cfg_1_, cfg_2_, policy, order) ==
    IF policy \notin Policies
    THEN [heap |-> heap_, raised |-> "AssertionError", cell |-> None,
          warns |-> <<>>]
    ELSE LET cfg_ == deepcopy(heap_, cfg_1_)
         IN  MergeItems(cfg_.heap, cfg_.cell.v, cfg_2_,
                        ItemsOf(cfg_.heap, cfg_2_.v, order), policy, order, <<>>)

(***************************************************************************)
(* merge(cfg_1, cfg_2, new_key_policy) called on two trees in memory       *)
(***************************************************************************)
KeyRun == <<"_","_","r","u","n","_","_">>

Nope == <<"n","o","p","e">>

Absent == [t |-> "absent", v |-> <<>>]

\* the tree with the given values under "a", "t" and "__run__"
MergeTree(va, vt, vr) ==
    LET at == (KeyA :> va) @@ (KeyT :> vt) @@ (KeyRun :> vr)
    IN  [k \in {k \in DOMAIN at : at[k] # Absent} |-> at[k]]

MergeValuesA == {Absent, VInt(1), VBool(TRUE), VList(<<VInt(1)>>)}

MergeValuesT ==
    { Absent, VInt(1), VMap(KeyC :> VInt(1)),
      VMap((KeyC :> VBool(TRUE)) @@ (KeyA :> VList(<<VInt(1)>>))),
      VMap(KeyC :> VMap(KeyA :> VInt(1))) }

MergeValuesRun == {Absent, VMap(KeyA :> VStr(<<"x">>))}

MergeTrees ==
    {MergeTree(va, vt, vr) :
        va \in MergeValuesA, vt \in MergeValuesT, vr \in MergeValuesRun}

\* the orders of iteration over the keys; the order is only varied under the
\* policy "raise", where it decides how far the loop gets
Orders ==
    LET keys == {KeyA, KeyT, KeyC, KeyRun}
        n    == Cardinality(keys)
    IN  {o \in [1..n -> keys] : \A i, j \in 1..n : i # j => o[i] # o[j]}

InitMerge ==
    /\ \E base \in MergeTrees, overlay \in MergeTrees :
          LET first  == Alloc(<<>>, VMap(base))
              second == Alloc(first.heap, VMap(overlay))
          IN  \/ /\ heap = second.heap
                 /\ cfg_1 = first.cell
                 /\ cfg_2 = second.cell
              \/ /\ base = overlay
                 /\ heap = first.heap
                 /\ cfg_1 = first.cell
                 /\ cfg_2 = first.cell
    /\ new_key_policy \in Policies \cup {Nope}
    /\ items_order \in IF new_key_policy = Raise THEN Orders
                        ELSE {<<KeyA, KeyT, KeyC, KeyRun>>}
    /\ merged = [raised |-> "idle"]
    /\ ParserIdle
    /\ source = EmptyDict
    /\ FlatIdle
    /\ LoadIdle
    /\ MainIdle

\* merged = merge(cfg_1, cfg_2, new_key_policy)
Merge ==
    /\ merged.raised = "idle"
    /\ LET call == merge(heap, cfg_1, cfg_2, new_key_policy, items_order)
       IN  /\ heap' = call.heap
           /\ merged' = [raised |-> call.raised, cell |-> call.cell,
                         warns |-> call.warns]
    /\ UNCHANGED <<cfg_1, cfg_2, new_key_policy, items_order>>
    /\ UNCHANGED <<parserVars, flatVars, loadVars, mainVars>>

NextMerge == Merge

SpecMerge == InitMerge /\ [][NextMerge]_vars

\* the objects that exist before the call
Existing == DOMAIN heap

\* C11: no step changes a dict or a list that exists before it, whatever the
\* policy and whether merge returns or raises part-way through cfg_2, and
\* what merge returns gives access to none of the objects that existed
C11_MergeNeverMutates ==
    [][/\ \A a \in Existing : heap'[a] = heap[a]
       /\ merged'.raised = "" => Reach(heap', merged'.cell) \cap Existing = {}]_vars

\* merge raised on a new key below "t" after it had set "__run__" in its copy
C11_Witness ==
    /\ merged.raised = "KeyError"
    /\ Deref(heap, cfg_1) = VMap(KeyT :> VMap(KeyC :> VInt(1)))
    /\ Deref(heap, cfg_2) =
          VMap((KeyT :> VMap((KeyC :> VBool(TRUE)) @@ (KeyA :> VList(<<VInt(1)>>))))
               @@ (KeyRun :> VMap(KeyA :> VStr(<<"x">>))))
    /\ \E a \in DOMAIN heap :
          /\ a \notin Reach(heap, cfg_1) \cup Reach(heap, cfg_2)
          /\ heap[a].t = "map"
          /\ DOMAIN heap[a].v = {KeyT, KeyRun}

\* cfg_2 has a key that merge finds absent from cfg_1: a key without the `__`
\* prefix that cfg_1 lacks, at the root or below a key that is a dict in both
RECURSIVE HasNewKey(_, _)
HasNewKey(a, b) ==
    \E k \in DOMAIN b :
        \/ k \notin DOMAIN a /\ ~HasPrefix(k, Dunder)
        \/ /\ k \in DOMAIN a
           /\ a[k].t = "map"
           /\ b[k].t = "map"
           /\ HasNewKey(a[k].v, b[k].v)

\* C12: under the policy "raise" merge raises KeyError exactly when cfg_2 has
\* a key without the `__` prefix that is absent from cfg_1; when it returns,
\* a `__` key absent from cfg_1 is in the result with the value of cfg_2,
\* and so is a key present in both with different variants
C12_RaiseIffNewKey ==
    new_key_policy = Raise /\ merged.raised # "idle"
        => LET a == Deref(heap, cfg_1).v
               b == Deref(heap, cfg_2).v
           IN  /\ merged.raised = "KeyError" <=> HasNewKey(a, b)
               /\ merged.raised = "" <=> ~HasNewKey(a, b)
               /\ merged.raised = "" =>
                    LET cfg_ == Deref(heap, merged.cell).v
                    IN  \A k \in DOMAIN b :
                            \/ k \notin DOMAIN a
                            \/ a[k].t # b[k].t
                            => k \in DOMAIN cfg_ /\ cfg_[k] = b[k]

\* under "raise", {"t": 1} merged with {"a": True, "t": {"c": 1}} raises;
\* with {"t": {"c": 1}, "__run__": {"a": "x"}} it returns both replaced
C12_Witness ==
    /\ new_key_policy = Raise
    /\ merged.raised = ""
    /\ Deref(heap, cfg_1) = VMap((KeyA :> VInt(1)) @@ (KeyT :> VInt(1)))
    /\ Deref(heap, cfg_2) =
          VMap((KeyT :> VMap(KeyC :> VInt(1)))
               @@ (KeyRun :> VMap(KeyA :> VStr(<<"x">>))))
    /\ Deref(heap, merged.cell) =
          VMap((KeyA :> VInt(1)) @@ (KeyT :> VMap(KeyC :> VInt(1)))
               @@ (KeyRun :> VMap(KeyA :> VStr(<<"x">>))))

\* the keys for which merge warned that the type was overridden
TypeWarned == {merged.warns[i].key : i \in {j \in DOMAIN merged.warns :
                                              merged.warns[j].kind = "type"}}

\* C13: for a key of both trees, merge warns that the type is overridden
\* exactly when the variants differ, bool and int being different variants
\* in both directions, and the value of cfg_2 replaces that of cfg_1
C13_BoolAndIntAreDistinct ==
    merged.raised = ""
        => LET a    == Deref(heap, cfg_1).v
               b    == Deref(heap, cfg_2).v
               cfg_ == Deref(heap, merged.cell).v
           IN  \A k \in DOMAIN a \cap DOMAIN b :
                   /\ a[k].t # b[k].t => cfg_[k] = b[k] /\ k \in TypeWarned
                   /\ a[k].t = b[k].t /\ a[k].t # "map" => k \notin TypeWarned

\* C14: merge with a policy other than "raise", "warn" and "pass" raises
\* ValueError, whatever the trees, and returns nothing
C14_UnknownPolicyIsValueError ==
    new_key_policy \notin Policies /\ merged.raised # "idle"
        => merged.raised = "ValueError"

(***************************************************************************)
(* load_config                                                             *)
(* files_[path] is what yaml.safe_load reads from the file at path.  All   *)
(* the files are in the current directory.  A result is [raised, cfg,      *)
(* warns].                                                                 *)
(***************************************************************************)
KeyDefault == <<"_","_","d","e","f","a","u","l","t","_","_">>

KeyPolicy == <<"_","_","n","e","w","_","k","e","y","_","p","o","l","i","c","y","_","_">>

\* the keys of a tree, at every depth
RECURSIVE AllKeys(_)
AllKeys(tree) ==
    DOMAIN tree \cup
    UNION {IF tree[k].t = "map" THEN AllKeys(tree[k].v) ELSE {} : k \in DOMAIN tree}

\* the elements of a set, one after the other
RECURSIVE SeqOf(_)
SeqOf(S) ==
    IF S = {} THEN <<>>
    ELSE LET x == CHOOSE y \in S : TRUE IN <<x>> \o SeqOf(S \ {x})

\* what a call of merge gave, read back from the heap
MergeResult(call) ==
    [raised |-> call.raised,
     cfg    |-> IF call.raised = "" THEN Deref(call.heap, call.cell).v
                ELSE EmptyDict,
     warns  |-> call.warns]

\* merge called on two trees: what it raises or returns, and its warnings
MergeTrees_(cfg_1_, cfg_2_, policy) ==
    LET first  == Alloc(<<>>, VMap(cfg_1_))
        second == Alloc(first.heap, VMap(cfg_2_))
    IN  MergeResult(merge(second.heap, first.cell, second.cell, policy,
                          SeqOf(AllKeys(cfg_2_))))

\* the warnings printed before a call, put before the ones it printed
WithWarns(call, before) == [call EXCEPT !.warns = before \o call.warns]

\* cfg.pop(key)
Pop(cfg_, key) == [k \in DOMAIN cfg_ \ {key} |-> cfg_[k]]

\* the path of a default: as given when it does not start with ".", else
\* path.parent / default_path, the parent being the current directory
ResolveDefault(path, default_path) ==
    IF Head(default_path) # "." THEN default_path
    ELSE IF HasPrefix(default_path, <<".", "/">>) THEN From(default_path, 3)
    ELSE default_path

\* the merge of a default done the other way round: the earlier default wins
MergeDefault_first_wins(acc, sub) ==
    IF sub.raised # "" THEN WithWarns(sub, acc.warns)
    ELSE WithWarns(MergeTrees_(sub.cfg, acc.cfg, Pass), acc.warns \o sub.warns)

\* default_cfg = merge(default_cfg, load_config(...), "pass"), sub being
\* what load_config gave
MergeDefault(acc, sub) ==
    IF sub.raised # "" THEN WithWarns(sub, acc.warns)
    ELSE WithWarns(MergeTrees_(acc.cfg, sub.cfg, Pass), acc.warns \o sub.warns)

\* return merge(default_cfg, cfg, new_key_policy)
MergeOwn(default_cfg, cfg_, policy) ==
    IF default_cfg.raised # "" THEN default_cfg
    ELSE WithWarns(MergeTrees_(default_cfg.cfg, cfg_, policy), default_cfg.warns)

RECURSIVE load_config(_, _)
RECURSIVE LoadDefaults(_, _, _, _)
\* the loop of load_config over `defaults`, default_cfg in acc
LoadDefaults(files_, path, defaults, acc) ==
    IF defaults = <<>> \/ acc.raised # "" THEN acc
    ELSE LoadDefaults(files_, path, Tail(defaults),
             MergeDefault(acc,
                 load_config(files_, ResolveDefault(path, Head(defaults).v))))

load_config(files_, path) ==
    LET read == files_[path]
    IN  IF KeyDefault \notin DOMAIN read
        THEN [raised |-> "", cfg |-> read, warns |-> <<>>]
        ELSE MergeOwn(
                 LoadDefaults(files_, path,
                     IF read[KeyDefault].t = "str" THEN <<read[KeyDefault]>>
                     ELSE read[KeyDefault].v,
                     [raised |-> "", cfg |-> EmptyDict, warns |-> <<>>]),
                 Pop(Pop(read, KeyDefault), KeyPolicy),
                 IF KeyPolicy \in DOMAIN read THEN read[KeyPolicy].v ELSE Warn)

(***************************************************************************)
(* convert_as and build_config (src/expyrun/main.py)                       *)
(***************************************************************************)
\* s.split(c)
RECURSIVE SplitAt(_, _)
SplitAt(s, c) ==
    LET i == IndexOf(s, c)
    IN  IF i = 0 THEN <<s>>
        ELSE <<SubSeq(s, 1, i - 1)>> \o SplitAt(From(s, i + 1), c)

\* the list convert_as returns from the conversions of its elements
ConvertedList(each) ==
    IF \A j \in DOMAIN each : each[j].ok
    THEN [ok |-> TRUE, x |-> VList([j \in DOMAIN each |-> each[j].x])]
    ELSE [ok |-> FALSE, x |-> None]

\* the default that the j-th of `values` is converted as
ElementDefault(default, values, j) ==
    IF Len(values) = Len(default.v) THEN default.v[j]
    ELSE IF Len(default.v) > 0 THEN default.v[1]
    ELSE None

\* convert_as: [ok, x], ok = FALSE when it raises ValueError
RECURSIVE convert_as(_, _)
RECURSIVE ConvertValues(_, _)
ConvertValues(default, values) ==
    [j \in DOMAIN values |-> convert_as(ElementDefault(default, values, j), values[j])]

convert_as(default, arg) ==
    IF default.t = "list"
    THEN ConvertedList(ConvertValues(default, SplitAt(arg, ",")))
    ELSE IF default.t = "bool"
    THEN IF Lower(arg) \in {Lower(False), <<"0">>} THEN [ok |-> TRUE, x |-> VBool(FALSE)]
         ELSE IF Lower(arg) \in {Lower(True), <<"1">>} THEN [ok |-> TRUE, x |-> VBool(TRUE)]
         ELSE [ok |-> FALSE, x |-> None]
    ELSE IF default.t = "int"
    THEN IF IsIntText(arg) THEN [ok |-> TRUE, x |-> VInt(IntOf(arg))]
         ELSE [ok |-> FALSE, x |-> None]
    ELSE IF default.t = "float"
    THEN IF IsFloatText(arg) THEN [ok |-> TRUE, x |-> VFloat(FloatOf(arg))]
         ELSE [ok |-> FALSE, x |-> None]
    ELSE IF default.t = "none"
    THEN [ok |-> TRUE, x |-> convert_if_possible(arg)]
    ELSE [ok |-> TRUE, x |-> VStr(arg)]

\* the loop of build_config over args, from the i-th argument on
RECURSIVE ApplyArgs(_, _, _, _)
RECURSIVE ApplyConverted(_, _, _, _, _)
\* flatten[key] = convert_as(flatten[key], arg), and the rest of the loop
ApplyConverted(flatten, args_, i, key, converted) ==
    IF ~converted.ok THEN [raised |-> "ValueError", cfg |-> flatten]
    ELSE ApplyArgs((key :> converted.x) @@ flatten, args_, i + 1, key)

ApplyArgs(flatten, args_, i, key) ==
    IF i > Len(args_) THEN [raised |-> "", cfg |-> flatten]
    ELSE IF i % 2 = 1
    THEN IF ~HasPrefix(args_[i], <<"-", "-">>)
         THEN [raised |-> "AssertionError", cfg |-> flatten]
         ELSE ApplyArgs(flatten, args_, i + 1, From(args_[i], 3))
    ELSE IF key \notin DOMAIN flatten
    THEN [raised |-> "KeyError", cfg |-> flatten]
    ELSE ApplyConverted(flatten, args_, i, key, convert_as(flatten[key], args_[i]))

\* return config.config_unflatten(flatten)
BuildUnflat(unflat) ==
    IF ~unflat.ok THEN [raised |-> "ValueError", cfg |-> EmptyDict]
    ELSE [raised |-> "", cfg |-> unflat.d]

\* build_config once the loop over args is done
BuildApplied(applied) ==
    IF applied.raised # "" THEN [raised |-> applied.raised, cfg |-> EmptyDict]
    ELSE BuildUnflat(config_unflatten(applied.cfg))

\* build_config from the assertion on the number of args on
BuildFlat(flatten, args_) ==
    IF ~flatten.ok THEN [raised |-> "ValueError", cfg |-> EmptyDict]
    ELSE IF Len(args_) % 2 # 0
    THEN [raised |-> "AssertionError", cfg |-> EmptyDict]
    ELSE BuildApplied(ApplyArgs(flatten.d, args_, 1, <<>>))

\* build_config once the file is loaded
BuildLoaded(cfg_, args_) ==
    IF cfg_.raised # "" THEN [raised |-> cfg_.raised, cfg |-> EmptyDict]
    ELSE BuildFlat(config_flatten(cfg_.cfg), args_)

\* build_config: [raised, cfg]
build_config(files_, config_file_, args_) ==
    BuildLoaded(load_config(files_, config_file_), args_)

(***************************************************************************)
(* load_config and build_config called on the files f, d1 and d2           *)
(***************************************************************************)
FileF == <<"f">>

FileD1 == <<"d", "1">>

FileD2 == <<"d", "2">>

KeyN == <<"n">>

\* what d2 holds: it has no `__default__`
ContentsD2 ==
    { (KeyA :> VInt(1)) @@ (KeyB :> VBool(TRUE)),
      (KeyA :> VInt(2)) @@ (KeyT :> VMap(KeyC :> VInt(1))),
      (KeyPolicy :> VStr(Raise)) @@ (KeyA :> VStr(<<"x">>)) }

\* what d1 holds: with no default, or with d2 as its default
ContentsD1 ==
    { (KeyA :> VInt(3)),
      (KeyB :> VFloat(<<"0", ".", "5">>))
         @@ (KeyT :> VMap((KeyC :> VInt(2)) @@ (KeyA :> VList(<<VInt(1)>>)))),
      (KeyDefault :> VStr(FileD2)) @@ (KeyA :> VInt(5)),
      (KeyDefault :> VStr(<<".", "/">> \o FileD2)) @@ (KeyPolicy :> VStr(Raise))
         @@ (KeyN :> VInt(1)) }

\* the `__default__` of f, when it has one
DefaultsF ==
    { VStr(FileD1), VList(<<VStr(FileD1), VStr(FileD2)>>),
      VList(<<VStr(FileD2), VStr(FileD1)>>),
      VList(<<VStr(<<".", "/">> \o FileD1)>>), VList(<<>>) }

\* the `__new_key_policy__` of f, when it has one
PoliciesF == {VStr(Raise), VStr(Pass), VStr(Nope)}

\* the keys of f itself
OwnKeysF ==
    { EmptyDict, (KeyA :> VInt(9)), (KeyN :> VInt(1)),
      (KeyT :> VMap(KeyC :> VBool(TRUE))),
      (KeyA :> VList(<<VInt(1), VInt(2)>>)) @@ (KeyB :> VBool(FALSE)) }

ContentsF ==
    {own @@ d @@ p :
        own \in OwnKeysF,
        d \in {EmptyDict} \cup {KeyDefault :> x : x \in DefaultsF},
        p \in {EmptyDict} \cup {KeyPolicy :> x : x \in PoliciesF}}

\* the extra arguments of build_config
ArgLists ==
    { <<>>, <<<<"-","-","a">>, <<"7">>>>, <<<<"-","-","a">>>>, <<<<"-","-","n","o","p","e">>, <<"2">>>>,
      <<<<"-","-","a">>, <<"7">>, <<"-","-","a">>, <<"8">>>>, <<<<"-","-","t",".","c">>, <<"x">>>>,
      <<KeyA, <<"2">>>>, <<<<"-","-","a">>, <<"1", ",", "2">>>>, <<<<"-","-","b">>, <<"t", "r", "u", "e">>>> }

InitLoad ==
    /\ \E f \in ContentsF, d1 \in ContentsD1, d2 \in ContentsD2 :
          files = (FileF :> f) @@ (FileD1 :> d1) @@ (FileD2 :> d2)
    /\ config_file \in {FileF, FileD1}
    /\ args \in ArgLists
    /\ loaded = [raised |-> "idle"]
    /\ built = [raised |-> "idle"]
    /\ ParserIdle
    /\ source = EmptyDict
    /\ FlatIdle
    /\ MergeIdle
    /\ MainIdle

\* loaded = load_config(config_file)
LoadConfig ==
    /\ loaded.raised = "idle"
    /\ loaded' = load_config(files, config_file)
    /\ UNCHANGED <<files, config_file, args, built>>
    /\ UNCHANGED <<parserVars, flatVars, mergeVars, mainVars>>

\* built = build_config(config_file, args)
BuildConfig ==
    /\ built.raised = "idle"
    /\ built' = build_config(files, config_file, args)
    /\ UNCHANGED <<files, config_file, args, loaded>>
    /\ UNCHANGED <<parserVars, flatVars, mergeVars, mainVars>>

NextLoad ==
    \/ LoadConfig
    \/ BuildConfig

SpecLoad == InitLoad /\ [][NextLoad]_vars

(***************************************************************************)
(* C15: the tree load_config returns never has the key                     *)
(* `__new_key_policy__`, whether or not the loaded file declares           *)
(* `__default__`, and also when a file of the `__default__` chain declares *)
(* it.  The code pops the key only after it found `__default__`.           *)
(***************************************************************************)
C15_PolicyKeyIsStripped ==
    loaded.raised = "" => KeyPolicy \notin DOMAIN loaded.cfg

(***************************************************************************)
(* C16: load_config with `__default__` = [d1, ..., dn] returns             *)
(* merge(...merge(merge({}, load(d1), "pass"), load(d2), "pass")...,       *)
(* own_keys, policy): the defaults are applied left to right, so the last  *)
(* default that defines a key wins, a new key between sibling defaults     *)
(* neither warns nor fails, and the own keys of the loading file override  *)
(* all defaults under its `__new_key_policy__`, "warn" when absent.        *)
(***************************************************************************)
\* the defaults of f, as a list of paths
DefaultsOfF ==
    LET d == files[FileF][KeyDefault]
    IN  IF d.t = "str" THEN <<d.v>> ELSE [i \in DOMAIN d.v |-> d.v[i].v]

\* what loading each default of f gives
LoadsOfF ==
    [i \in DOMAIN DefaultsOfF |->
        load_config(files, ResolveDefault(FileF, DefaultsOfF[i]))]

\* merge(...merge({}, load(d1), "pass")..., load(dn), "pass")
RECURSIVE FoldDefaults(_)
FoldDefaults(n) ==
    IF n = 0 THEN [raised |-> "", cfg |-> EmptyDict, warns |-> <<>>]
    ELSE MergeTrees_(FoldDefaults(n - 1).cfg, LoadsOfF[n].cfg, Pass)

\* the keys of f itself and its policy
OwnKeysOfF == [k \in DOMAIN files[FileF] \ {KeyDefault, KeyPolicy} |-> files[FileF][k]]

PolicyOfF ==
    IF KeyPolicy \in DOMAIN files[FileF] THEN files[FileF][KeyPolicy].v ELSE Warn

\* the defaults of f that define the key k
Defining(k) == {i \in DOMAIN LoadsOfF : k \in DOMAIN LoadsOfF[i].cfg}

\* the last of them
LastDefining(k) == CHOOSE i \in Defining(k) : \A j \in Defining(k) : j <= i

C16_DefaultsFoldLeftToRight ==
    (/\ loaded.raised # "idle"
     /\ config_file = FileF
     /\ KeyDefault \in DOMAIN files[FileF])
    => IF \E i \in DOMAIN LoadsOfF : LoadsOfF[i].raised # ""
       THEN loaded.raised \in {LoadsOfF[i].raised : i \in DOMAIN LoadsOfF} \ {""}
       ELSE LET final == MergeTrees_(FoldDefaults(Len(DefaultsOfF)).cfg,
                                     OwnKeysOfF, PolicyOfF)
            IN  /\ loaded.raised = final.raised
                /\ loaded.cfg = final.cfg
                \* sibling defaults neither fail nor warn about a new key
                /\ \A n \in DOMAIN LoadsOfF :
                      /\ FoldDefaults(n).raised = ""
                      /\ \A i \in DOMAIN FoldDefaults(n).warns :
                            FoldDefaults(n).warns[i].kind # "new key"
                \* the own keys of f override the defaults
                /\ loaded.raised = "" =>
                      \A k \in DOMAIN OwnKeysOfF :
                         OwnKeysOfF[k].t # "map" => loaded.cfg[k] = OwnKeysOfF[k]
                \* the last default that defines a key wins
                /\ loaded.raised = "" =>
                      \A k \in UNION {DOMAIN LoadsOfF[i].cfg : i \in DOMAIN LoadsOfF} :
                         (/\ k \notin DOMAIN OwnKeysOfF
                          /\ LoadsOfF[LastDefining(k)].cfg[k].t # "map")
                         => loaded.cfg[k] = LoadsOfF[LastDefining(k)].cfg[k]
                \* a new key of f warns under "warn" and fails under "raise"
                /\ \A k \in DOMAIN OwnKeysOfF :
                      k \notin DOMAIN FoldDefaults(Len(DefaultsOfF)).cfg =>
                         /\ PolicyOfF = Raise => loaded.raised = "KeyError"
                         /\ PolicyOfF = Warn =>
                               \E i \in DOMAIN final.warns :
                                  final.warns[i] = [kind |-> "new key", key |-> k]

\* f has two defaults that both define `a`, differently, and a new key `n`
\* of its own, no policy: `a` is the one of the last default, `n` is added
C16_Witness ==
    /\ config_file = FileF
    /\ loaded.raised = ""
    /\ KeyDefault \in DOMAIN files[FileF]
    /\ files[FileF][KeyDefault] = VList(<<VStr(FileD1), VStr(FileD2)>>)
    /\ KeyPolicy \notin DOMAIN files[FileF]
    /\ KeyA \in DOMAIN files[FileD1]
    /\ KeyA \in DOMAIN files[FileD2]
    /\ files[FileD1][KeyA] # files[FileD2][KeyA]
    /\ KeyA \notin DOMAIN files[FileF]
    /\ loaded.cfg[KeyA] = files[FileD2][KeyA]
    /\ KeyN \in DOMAIN files[FileF]
    /\ loaded.cfg[KeyN] = files[FileF][KeyN]
    /\ \E i \in DOMAIN loaded.warns :
          loaded.warns[i] = [kind |-> "new key", key |-> KeyN]

(***************************************************************************)
(* main(cfg, debug) (src/expyrun/main.py): the references are resolved,    *)
(* then the output directory is made and filled, the process moves into    *)
(* it and the function of the experiment is called.  `effects` is the log  *)
(* of what main did to the file system, the process and the experiment.    *)
(***************************************************************************)
KeyMain == <<"_","_","m","a","i","n","_","_">>

KeyName == <<"_","_","n","a","m","e","_","_">>

KeyOutputDir == <<"_","_","o","u","t","p","u","t","_","d","i","r","_","_">>

KeyCode == <<"_","_","c","o","d","e","_","_">>

ExpyrunCwd == <<"E","X","P","Y","R","U","N","_","C","W","D">>

\* os.getcwd()
Cwd == <<"/", "w">>

\* how many exp.i directories of the experiment may exist already
MaxExp == 1

\* pathlib.Path(path).absolute()
Absolute(path) ==
    IF path = <<>> THEN Cwd
    ELSE IF Head(path) = "/" THEN path
    ELSE Cwd \o <<"/">> \o path

\* left / right, right a relative path
PathJoin(left, right) == left \o <<"/">> \o right

\* cfg["__run__"][key] = text
SetRun(cfg_, key, text) ==
    [cfg_ EXCEPT ![KeyRun] = VMap((key :> VStr(text)) @@ cfg_[KeyRun].v)]

\* cfg["__run__"][key]
GetRun(cfg_, key) == cfg_[KeyRun].v[key].v

\* module_name, func_name = cfg["__run__"]["__main__"].split(":")
ModuleName(cfg_) == SplitAt(GetRun(cfg_, KeyMain), ":")[1]

\* cfg["__run__"].get("__code__", os.getcwd())
CodeDir(cfg_) ==
    IF KeyCode \in DOMAIN cfg_[KeyRun].v THEN GetRun(cfg_, KeyCode) ELSE Cwd

\* the output directory of the run, exp.0 to exp.(i - 1) being there already
OutputDir(cfg_, debug_, i) ==
    LET output_dir == Absolute(GetRun(cfg_, KeyOutputDir))
        parent == IF debug_ THEN PathJoin(output_dir, <<"D","E","B","U","G">>)
                  ELSE output_dir
    IN  PathJoin(PathJoin(parent, GetRun(cfg_, KeyName)),
                 <<"e","x","p",".">> \o IntText(i))

\* cfg, or raw_cfg, as main saves it: `__output_dir__` absolute, and
\* `__code__` the output directory when the code was copied there
Saved(cfg_, resolved, debug_, dir) ==
    LET absolute == SetRun(cfg_, KeyOutputDir, Absolute(GetRun(resolved, KeyOutputDir)))
    IN  IF debug_ THEN absolute ELSE SetRun(absolute, KeyCode, dir)

Effect(op, path, cfg_, name) == [op |-> op, path |-> path, cfg |-> cfg_, name |-> name]

\* what main does once os.makedirs(output_dir) is done, in order
Downstream(raw_cfg, cfg_, debug_, dir) ==
    (IF debug_ THEN <<>>
     ELSE << Effect("save_requirements", dir, EmptyDict, <<>>),
             Effect("duplicate_code", CodeDir(cfg_), EmptyDict, ModuleName(cfg_)) >>)
    \o << Effect("save_config", PathJoin(dir, <<"c","o","n","f","i","g",".","y","m","l">>),
                 Saved(cfg_, cfg_, debug_, dir), <<>>),
          Effect("save_config",
                 PathJoin(dir, <<"r","a","w","_","c","o","n","f","i","g",".","y","m","l">>),
                 Saved(raw_cfg, cfg_, debug_, dir), <<>>),
          Effect("chdir", dir, EmptyDict, <<>>),
          Effect("StdFileRedirection", <<"o","u","t","p","u","t","s",".","l","o","g">>,
                 EmptyDict, <<>>),
          Effect("import_module", <<>>, EmptyDict, ModuleName(cfg_)),
          Effect("_main", <<>>, Pop(Saved(cfg_, cfg_, debug_, dir), KeyRun),
                 GetRun(cfg_, KeyName)) >>

\* main, up to Parser(cfg): EXPYRUN_CWD is set in the environment first
MainParse ==
    /\ status = "idle"
    /\ effects = <<>>
    /\ env' = (ExpyrunCwd :> Cwd) @@ env
    /\ config' = config_flatten(source).d
    /\ status' = "running"
    /\ pass' = 1
    /\ UNCHANGED <<parsing, parsed, stack, visited, result, warns, source>>
    /\ UNCHANGED <<flatVars, mergeVars, loadVars, mainVars>>

\* main creating the output directory after resolve failed (sensitivity
\* variant of MainMakedirs)
MainMakedirs_after_failure ==
    /\ status \in {"done", "RuntimeError"}
    /\ effects = <<>>
    /\ \E i \in 0..MaxExp :
          effects' = << Effect("makedirs", OutputDir(source, debug, i), EmptyDict, <<>>) >>
    /\ UNCHANGED <<parserVars, flatVars, mergeVars, loadVars, debug>>

\* main, from the return of Parser.parse to os.makedirs(output_dir)
MainMakedirs ==
    /\ status = "done"
    /\ effects = <<>>
    /\ \E i \in 0..MaxExp :
          effects' = << Effect("makedirs", OutputDir(result, debug, i), EmptyDict, <<>>) >>
    /\ UNCHANGED <<parserVars, flatVars, mergeVars, loadVars, debug>>

\* main, one more step after os.makedirs, up to the call of _main
MainStep ==
    /\ status = "done"
    /\ effects # <<>>
    /\ LET rest == Downstream(source, result, debug, effects[1].path)
       IN  /\ Len(effects) <= Len(rest)
           /\ effects' = Append(effects, rest[Len(effects)])
    /\ UNCHANGED <<parserVars, flatVars, mergeVars, loadVars, debug>>

\* the `__run__` sections main is called with
RunSections ==
    { (KeyMain :> VStr(<<"m", ":", "f">>)) @@ (KeyName :> VStr(<<"e">>))
        @@ (KeyOutputDir :> VStr(o)) @@ c :
        o \in { <<"o">>, <<"/", "o">>, <<"$">> \o ExpyrunCwd \o <<"/", "o">> },
        c \in { EmptyDict, KeyCode :> VStr(<<"s">>) } }

MainValuesA == { VInt(1), VStr(<<"{", "b", "}">>) }

MainValuesB == { VStr(<<"x">>), VStr(<<"{", "a", "}">>), VStr(<<"$", "X">>) }

InitMain ==
    /\ \E va \in MainValuesA, vb \in MainValuesB, run \in RunSections :
          source = (KeyRun :> VMap(run)) @@ (KeyA :> va) @@ (KeyB :> vb)
    /\ env \in {EmptyDict, EnvX :> <<"x">>}
    /\ debug \in BOOLEAN
    /\ effects = <<>>
    /\ config = EmptyDict
    /\ parsing = {}
    /\ parsed = {}
    /\ stack = <<>>
    /\ visited = {}
    /\ status = "idle"
    /\ result = EmptyDict
    /\ warns = 0
    /\ pass = 0
    /\ FlatIdle
    /\ MergeIdle
    /\ LoadIdle

NextMain ==
    \/ MainParse
    \/ \E key \in DOMAIN config : ParseLoop(key)
    \/ ParseKeyCall
    \/ ParseKeyRaise
    \/ ParseKeyReturn
    \/ ParseReturn
    \/ MainMakedirs
    \/ MainStep

SpecMain == InitMain /\ [][NextMain]_vars

(***************************************************************************)
(* C17: in main a failed resolve aborts before any downstream effect.      *)
(* Unless Parser.parse returned, no output directory is made, no           *)
(* configuration is saved, the working directory is not changed and the    *)
(* function of the experiment is not called, and a failure is final; the   *)
(* function is called last, after the directory was made, the              *)
(* configurations saved and the directory entered, and with the resolved   *)
(* configuration without its `__run__` section.                            *)
(***************************************************************************)
Ops == {effects[i].op : i \in DOMAIN effects}

C17_FailedResolveAborts ==
    /\ [](status # "done" => effects = <<>>)
    /\ [][(status \in {"RuntimeError", "ValueError"} =>
             (status' = status /\ effects' = effects))]_vars
    /\ [](\A i \in DOMAIN effects :
             effects[i].op = "_main" =>
                /\ i = Len(effects)
                /\ {"makedirs", "save_config", "chdir"} \subseteq
                      {effects[j].op : j \in 1..(i - 1)}
                /\ KeyRun \notin DOMAIN effects[i].cfg
                /\ effects[i].cfg = Pop(result, KeyRun))

\* resolve failed on a cyclic reference: main did nothing
C17_Witness ==
    /\ status = "RuntimeError"
    /\ KeyRun \in DOMAIN source
    /\ Cyclic(Snapshot)
    /\ effects = <<>>


(***************************************************************************)
(* C18: build_config applies the `--key value` overrides only to keys of   *)
(* the flattened loaded configuration.  An override of an unknown key      *)
(* fails with KeyError and no configuration is returned, an odd number of  *)
(* arguments is rejected with a ValueError, and on success the flat keys   *)
(* of the result are the flat keys of the loaded configuration, the last   *)
(* override of a key being the one applied.  The code rejects an odd       *)
(* number of arguments with an assert statement, hence an AssertionError.  *)
(***************************************************************************)
\* the flattened configuration build_config starts from
LoadedFlat == config_flatten(load_config(files, config_file).cfg).d

\* the keys the arguments override, and the last value given to each
OverriddenKeys == {From(args[i], 3) : i \in {j \in DOMAIN args : j % 2 = 1}}

LastValue(key) ==
    args[(CHOOSE i \in DOMAIN args :
            /\ i % 2 = 1
            /\ From(args[i], 3) = key
            /\ \A j \in DOMAIN args : (j % 2 = 1 /\ From(args[j], 3) = key) => j <= i) + 1]

C18_OverridesOnlyKnownKeys ==
    (/\ built.raised # "idle"
     /\ load_config(files, config_file).raised = "")
    => /\ Len(args) % 2 = 1 => built.raised = "ValueError"
       /\ (/\ Len(args) % 2 = 0
           /\ \A i \in DOMAIN args : i % 2 = 1 => HasPrefix(args[i], <<"-", "-">>)
           /\ OverriddenKeys \ DOMAIN LoadedFlat # {})
          => built.raised = "KeyError" /\ built.cfg = EmptyDict
       /\ built.raised = "" =>
             /\ DOMAIN config_flatten(built.cfg).d = DOMAIN LoadedFlat
             /\ \A key \in OverriddenKeys :
                   config_flatten(built.cfg).d[key]
                      = convert_as(LoadedFlat[key], LastValue(key)).x
             /\ \A key \in DOMAIN LoadedFlat \ OverriddenKeys :
                   config_flatten(built.cfg).d[key] = LoadedFlat[key]

(***************************************************************************)
(* The Parser run on names that hold the digit 0                           *)
(***************************************************************************)
KeyL0 == <<"l", "0">>

KeyL1 == <<"l", "1">>

EnvGPU == <<"G", "P", "U">>

EnvGPU0 == <<"G", "P", "U", "0">>

EnvGPU10 == <<"G", "P", "U", "1", "0">>

EnvGPU1 == <<"G", "P", "U", "1">>

\* `{key}`
SelfReference(key) == <<"{">> \o key \o <<"}">>

\* `$NAME` and `${NAME}`
BareReference(name) == <<"$">> \o name

BracedReference(name) == <<"$", "{">> \o name \o <<"}">>

DigitValuesA ==
    {VStr(SelfReference(k)) : k \in {KeyL0, KeyL1}}
    \cup {VStr(<<"x">> \o SelfReference(k)) : k \in {KeyL0, KeyL1}}
    \cup {VStr(BareReference(n)) : n \in {EnvGPU0, EnvGPU10, EnvGPU1}}
    \cup {VStr(BracedReference(n)) : n \in {EnvGPU0, EnvGPU10, EnvGPU1}}

DigitValuesL == {VInt(5), VStr(<<"y">>), VStr(SelfReference(KeyA))}

DigitEnvironments ==
    { (EnvGPU0 :> <<"3">>) @@ (EnvGPU10 :> <<"4">>) @@ (EnvGPU1 :> <<"6">>),
      (EnvGPU0 :> <<"3">>) @@ (EnvGPU10 :> <<"4">>) @@ (EnvGPU1 :> <<"6">>)
         @@ (EnvGPU :> <<"7">>) }

InitDigits ==
    /\ \E va \in DigitValuesA, v0 \in DigitValuesL, v1 \in DigitValuesL :
          ParserInit((KeyA :> va) @@ (KeyL0 :> v0) @@ (KeyL1 :> v1))
    /\ env \in DigitEnvironments
    /\ (\A k \in DOMAIN config : ~HasChar(config[k], "$")) =>
          env = CHOOSE e \in DigitEnvironments : EnvGPU \notin DOMAIN e
    /\ pass = 1
    /\ FlatIdle
    /\ MergeIdle
    /\ LoadIdle
    /\ MainIdle

SpecDigits == InitDigits /\ [][Next]_vars

(***************************************************************************)
(* C19: every self reference `{k}`, k made of letters, digits 0-9,         *)
(* underscores and dots, and every environment reference `$NAME` or        *)
(* `${NAME}`, NAME a letter followed by letters, digits 0-9 and            *)
(* underscores, is recognised and substituted as a whole token, also when  *)
(* the name holds the digit 0.  The regular expressions of the Parser      *)
(* have the class 1-9: a name stops before a 0.                            *)
(***************************************************************************)
\* the token of the stated grammar for keys
IsKeyToken(k) ==
    k # <<>> /\ \A i \in DOMAIN k : k[i] \in Letters \cup Digits \cup {"_", "."}

\* NAME of the stated grammar
IsName(n) ==
    /\ n # <<>>
    /\ n[1] \in Letters
    /\ \A i \in DOMAIN n : n[i] \in Letters \cup Digits \cup {"_"}

C19_TokensFollowGrammar ==
    (status = "done" /\ pass = 1)
    => \A key \in DOMAIN Snapshot :
          LET value == Snapshot[key]
          IN  /\ \A k \in DOMAIN Snapshot :
                    (IsKeyToken(k) /\ value = VStr(SelfReference(k)))
                    => Resolved(key) = Resolved(k)
              /\ \A n \in DOMAIN env :
                    (/\ IsName(n)
                     /\ value \in {VStr(BareReference(n)), VStr(BracedReference(n))})
                    => Resolved(key) = convert_if_possible(env[n])

(***************************************************************************)
(* C20: during one parse each key enters Parser.parsing at most once and   *)
(* its value is formatted at most once, however many keys reference it;    *)
(* the nesting of the parse_key calls is at most the number of keys (plus  *)
(* the call that finds a cycle), and parse always ends, by a return or by  *)
(* an exception.                                                           *)
(***************************************************************************)
\* what is left to do in a parse: it decreases at every step
Variant ==
    2 * Cardinality(DOMAIN config \ parsed)
    + Cardinality(DOMAIN config \ visited)
    - Cardinality(parsing)
    + (IF status = "running" THEN 1 ELSE 0)

\* one step inside a parse
ParseStepOnce ==
    \* a key that enters Parser.parsing was neither parsed nor being parsed
    /\ (parsing' \ parsing) \cap (parsed \cup parsing) = {}
    \* a key leaves Parser.parsing only as parsed, and stays parsed
    /\ parsing \ parsing' \subseteq parsed' \ parsed
    /\ parsed \subseteq parsed'
    \* a value is replaced only when its key becomes parsed
    /\ \A key \in DOMAIN config :
          config'[key] # config[key] => key \in parsing /\ key \in parsed' \ parsed
    /\ Variant' < Variant
    /\ Variant' >= 0

\* parse is over
ParseOver == status \in {"done", "RuntimeError", "ValueError"}

\* some step of parse can be taken: the loop goes on or returns, or the
\* innermost parse_key call returns, calls parse_key or raises
CanStep ==
    /\ status = "running"
    /\ IF stack = <<>> THEN visited \subseteq DOMAIN config
       ELSE \/ TopFormat.r = "val"
            \/ /\ TopFormat.r = "call"
               /\ parse_key(TopFormat.key, parsing, parsed) \in {"format", "raise"}

C20_EachKeyOnceAndTerminates ==
    /\ [][pass' = pass => ParseStepOnce]_vars
    /\ [](status = "running" =>
            /\ Len(stack) <= Cardinality(DOMAIN config)
            /\ parsing = {stack[i].key : i \in DOMAIN stack}
            /\ Cardinality(parsing) = Len(stack)
            /\ parsing \cap parsed = {})
    /\ [](ParseOver \/ CanStep)

\* the references are resolved and some key was referenced by two others
C20_Witness ==
    /\ status = "done"
    /\ pass = 1
    /\ \E key \in DOMAIN Snapshot :
          Cardinality({k \in DOMAIN Snapshot \ {key} : key \in References(Snapshot, k)}) >= 2


(***************************************************************************)
(* C21: when merge(cfg_1, cfg_2, policy) returns under "warn" or "pass",   *)
(* at every level where both have a dict the keys of the result are the    *)
(* keys of both; every leaf of cfg_2 has its value of cfg_2 in the result; *)
(* every leaf of cfg_1 the path of which is not a path of cfg_2, nor below *)
(* a key that cfg_2 replaced by a value that is not a dict, is in the      *)
(* result as it was.                                                       *)
(***************************************************************************)
\* the paths of a tree, the root included
RECURSIVE PathsOf(_)
PathsOf(tree) ==
    {<<>>} \cup
    UNION {IF tree[k].t = "map"
           THEN {<<k>> \o p : p \in PathsOf(tree[k].v)}
           ELSE {<<k>>} : k \in DOMAIN tree}

\* the value at a path of a tree, the tree itself at the root
RECURSIVE At(_, _)
At(value, path) ==
    IF path = <<>> THEN value ELSE At(value.v[Head(path)], Tail(path))

\* the paths that end on a value that is not a dict
LeafPaths(tree) == {p \in PathsOf(tree) : At(VMap(tree), p).t # "map"}

\* the strict prefixes of a path
Prefixes(path) == {SubSeq(path, 1, n) : n \in 0..(Len(path) - 1)}

\* the paths at which merge merged two dicts
MergedLevels(a, b) ==
    {p \in PathsOf(a) \cap PathsOf(b) :
        \A q \in Prefixes(p) \cup {p} :
           At(VMap(a), q).t = "map" /\ At(VMap(b), q).t = "map"}

C21_MergeKeepsBothSides ==
    (merged.raised = "" /\ new_key_policy \in {Warn, Pass})
    => LET a == Deref(heap, cfg_1).v
           b == Deref(heap, cfg_2).v
           r == Deref(heap, merged.cell).v
       IN  /\ \A p \in MergedLevels(a, b) :
                 /\ p \in PathsOf(r)
                 /\ At(VMap(r), p).t = "map"
                 /\ DOMAIN At(VMap(r), p).v
                       = DOMAIN At(VMap(a), p).v \cup DOMAIN At(VMap(b), p).v
           /\ \A p \in LeafPaths(b) :
                 p \in PathsOf(r) /\ At(VMap(r), p) = At(VMap(b), p)
           /\ \A p \in LeafPaths(a) :
                 (/\ p \notin PathsOf(b)
                  /\ \A q \in Prefixes(p) :
                        q \in PathsOf(b) => At(VMap(b), q).t = "map")
                 => p \in PathsOf(r) /\ At(VMap(r), p) = At(VMap(a), p)

\* both have a dict at `t`: cfg_2 brings the new key t.a and replaces t.c,
\* and the leaf `a` of cfg_1, which cfg_2 lacks, is kept
C21_Witness ==
    /\ new_key_policy = Warn
    /\ merged.raised = ""
    /\ Deref(heap, cfg_1) = VMap((KeyA :> VInt(1)) @@ (KeyT :> VMap(KeyC :> VInt(1))))
    /\ Deref(heap, cfg_2) =
          VMap(KeyT :> VMap((KeyC :> VBool(TRUE)) @@ (KeyA :> VList(<<VInt(1)>>))))
    /\ Deref(heap, merged.cell) =
          VMap((KeyA :> VInt(1))
               @@ (KeyT :> VMap((KeyC :> VBool(TRUE)) @@ (KeyA :> VList(<<VInt(1)>>)))))

(***************************************************************************)
(* C22: in every reachable state Parser.parsing and Parser.parsed are      *)
(* disjoint sets of keys of the configuration, Parser.parsing is exactly   *)
(* the set of the keys the parse_key calls of which are on the stack, a    *)
(* parsed key stays parsed and its value is not changed again, and when    *)
(* parse returns Parser.parsing is empty and every key is parsed.          *)
(***************************************************************************)
\* the keys of the parse_key calls on the stack
OnStack == {stack[i].key : i \in DOMAIN stack}

\* what holds of the two sets whatever parse did
SetsApart ==
    /\ parsing \cap parsed = {}
    /\ parsing \cup parsed \subseteq DOMAIN config
    /\ status = "done" => parsing = {} /\ parsed = DOMAIN config

\* a parsed key stays parsed, with its value
ParsedIsFinal ==
    pass' = pass =>
       /\ parsed \subseteq parsed'
       /\ \A key \in parsed : config'[key] = config[key]

\* the statement for every reachable state: Parser.parsing is the set of
\* the keys on the stack also after parse raised
C22_BookkeepingEverywhere ==
    /\ [](SetsApart /\ parsing = OnStack)
    /\ [][ParsedIsFinal]_vars

\* the statement while parse runs and after it returned; when parse raises
\* RuntimeError the calls are gone and their keys stay in Parser.parsing
C22_BookkeepingUntilFailure ==
    /\ [](SetsApart)
    /\ [](status \in {"running", "done"} => parsing = OnStack)
    /\ [](status = "RuntimeError" => stack = <<>> /\ parsing # {})
    /\ [][(status = "running" /\ status' = "RuntimeError")
             => (parsing = OnStack /\ parsing' = parsing)]_vars
    /\ [][ParsedIsFinal]_vars

\* parse raised on a cycle of two keys after it had parsed another key:
\* the two keys are still in Parser.parsing
C22_Witness ==
    /\ status = "RuntimeError"
    /\ stack = <<>>
    /\ Cardinality(parsing) >= 2
    /\ parsed # {}

(***************************************************************************)
(* C23: what parse gives does not depend on the order in which the loop    *)
(* of parse takes the keys: in a given environment every order gives the   *)
(* same tree, and if one order raises RuntimeError every order does.       *)
(* The loop of the model takes the keys in any order; every run is         *)
(* compared with the run that takes them in one fixed order.               *)
(***************************************************************************)
RECURSIVE EvalKey(_, _, _)
RECURSIVE EvalStep(_, _, _, _)
\* parse_key(key) run to its end, `path` the keys of the calls around it;
\* st is [ok, config, parsed], ok = FALSE once RuntimeError is raised
EvalKey(st, key, path) ==
    IF ~st.ok \/ key \in st.parsed THEN st
    ELSE EvalStep(st, key, path, format(st.config[key], st.config, st.parsed, env))

\* f is what format does first: it returns, or it calls parse_key(f.key)
EvalStep(st, key, path, f) ==
    IF f.r = "val"
    THEN [ok |-> TRUE, config |-> [st.config EXCEPT ![key] = f.x],
          parsed |-> st.parsed \cup {key}]
    ELSE IF f.key \in path \cup {key} THEN [st EXCEPT !.ok = FALSE]
    ELSE EvalKey(EvalKey(st, f.key, path \cup {key}), key, path)

\* the loop of parse over `keys`, in one order
RECURSIVE EvalAll(_, _)
EvalAll(st, keys) ==
    IF keys = {} THEN st
    ELSE LET key == CHOOSE k \in keys : TRUE
         IN  EvalAll(EvalKey(st, key, {}), keys \ {key})

\* parse of the source in that order
FixedOrder == EvalAll([ok |-> TRUE, config |-> Snapshot, parsed |-> {}], DOMAIN Snapshot)

C23_OrderIsIrrelevant ==
    /\ status = "done" =>
          /\ FixedOrder.ok
          /\ config = FixedOrder.config
          /\ result = config_unflatten(FixedOrder.config).d
    /\ status = "RuntimeError" => ~FixedOrder.ok
    /\ status = "ValueError" =>
          FixedOrder.ok /\ ~config_unflatten(FixedOrder.config).ok

\* parse returned on a configuration where a key refers to a key that
\* itself refers to a third one: the order decides which call resolves which
C23_Witness ==
    /\ status = "done"
    /\ pass = 1
    /\ \E k1 \in DOMAIN Snapshot :
          \E k2 \in References(Snapshot, k1) \cap DOMAIN Snapshot :
             References(Snapshot, k2) \cap DOMAIN Snapshot # {}

(***************************************************************************)
(* C24: parse keeps lists as lists of scalars: a list of the configuration *)
(* resolves to a list of the same length, each element being the format    *)
(* of the element at the same place, and a bool, an int, a float or a str, *)
(* never a list.  An element that is exactly `{k}`, k the key of a list,   *)
(* resolves to that list: the result is a list in a list.                  *)
(***************************************************************************)
Scalars == {"bool", "int", "float", "str"}

C24_ListsStayFlat ==
    (status = "done" /\ pass = 1)
    => \A key \in DOMAIN Snapshot :
          Snapshot[key].t = "list" =>
             /\ Resolved(key).t = "list"
             /\ Len(Resolved(key).v) = Len(Snapshot[key].v)
             /\ \A i \in DOMAIN Snapshot[key].v :
                   /\ Resolved(key).v[i]
                         = format(Snapshot[key].v[i], config, DOMAIN config, env).x
                   /\ Resolved(key).v[i].t \in Scalars

(***************************************************************************)
(* The Parser run in environments where the text of a variable is itself   *)
(* a reference to a variable                                               *)
(***************************************************************************)
EnvY == <<"Y">>

NestedEnvironments ==
    { (EnvX :> BracedReference(EnvY)) @@ (EnvY :> <<"1">>),
      (EnvX :> BareReference(EnvY)) @@ (EnvY :> <<"1">>),
      (EnvX :> <<"2">>) @@ (EnvY :> <<"1">>),
      (EnvX :> BracedReference(EnvY)) }

NestedValuesA ==
    { VStr(BareReference(EnvX)), VStr(<<"v", "_">> \o BareReference(EnvX)),
      VStr(BracedReference(EnvX)), VStr(BareReference(EnvY)),
      VStr(BareReference(EnvX) \o SelfReference(KeyB)) }

NestedValuesB == { VInt(2), VStr(SelfReference(KeyA)), VStr(SelfReference(KeyTC)) }

NestedValuesC ==
    { VStr(<<"x">>), VStr(SelfReference(KeyA)), VStr(BareReference(EnvY)) }

InitNested ==
    /\ \E va \in NestedValuesA, vb \in NestedValuesB, vc \in NestedValuesC :
          ParserInit(Source(va, vb, vc))
    /\ env \in NestedEnvironments
    /\ pass = 1
    /\ FlatIdle
    /\ MergeIdle
    /\ LoadIdle
    /\ MainIdle

SpecNested == InitNested /\ [][Next]_vars

(***************************************************************************)
(* C25: the substitution of the environment references is one pass over    *)
(* the text of the value: the text put in for a variable is not looked at  *)
(* for further environment references.  With X set to `${Y}` and Y to `1`, *)
(* `$X` resolves with the text `${Y}`, not with the value of Y.  The code  *)
(* runs re.sub twice, once per form of reference, and the second one goes  *)
(* over the text the first one put in.                                     *)
(***************************************************************************)
\* one pass over s from index i on: every reference of s, bare or in
\* brackets, is replaced by the text of its variable
RECURSIVE SinglePass(_, _, _)
SinglePass(s, i, environ) ==
    IF i > Len(s) THEN <<>>
    ELSE IF EnvVarMatch(s, i) # 0
    THEN env_replace(BareName(s, i), environ).s
            \o SinglePass(s, EnvVarMatch(s, i), environ)
    ELSE IF EnvVarBracketMatch(s, i) # 0
    THEN env_replace(BracketName(s, i), environ).s
            \o SinglePass(s, EnvVarBracketMatch(s, i), environ)
    ELSE <<s[i]>> \o SinglePass(s, i + 1, environ)

\* what format gives for a string when the references to the environment
\* are replaced in one pass, the keys being all parsed
FormatSinglePass(value) ==
    LET e == convert_if_possible(SinglePass(value, 1, env))
    IN  IF e.t = "str" /\ "{" \in Range(e.v)
        THEN replace_self_reference(e.v, config, DOMAIN config).x
        ELSE e

C25_EnvIsSinglePass ==
    (status = "done" /\ pass = 1)
    => \A key \in DOMAIN Snapshot :
          (/\ Snapshot[key].t = "str"
           /\ ~IsEscaped(Snapshot[key].v)
           /\ "$" \in Range(Snapshot[key].v))
          => Resolved(key) = FormatSinglePass(Snapshot[key].v)

=============================================================================
